---- MODULE Spec2Model ----
(***************************************************************************)
(* Recursive block algebra of hmat-oss (src/src/recursion.cpp).            *)
(*                                                                         *)
(* RecursionMatrix<T, Mat> implements the block algorithms of an H-matrix  *)
(* node on the grid of its children: LDLT, LLT and LU factorisation, the   *)
(* three triangular solves, the M.D.Mt update and the inverse.  Every      *)
(* routine is a loop nest that calls methods of the children.  A routine   *)
(* is modelled as the sequence of calls its loop nest issues (one record   *)
(* per call, in program order), and one step of the model is one such      *)
(* call, executed on the children.  A child is a scalar of the exact field *)
(* GF(5), or NULL when the child is absent.                                *)
(***************************************************************************)
EXTENDS Integers, Sequences, FiniteSets, TLC

(***************************************************************************)
(* Bounds of the model.                                                    *)
(***************************************************************************)
\* largest number of children per dimension (nrChildRow, nrChildCol)
MaxN == 3
\* the input values are drawn from the test matrices number 0..MaxSeed
MaxSeed == 11
\* the presence patterns number 0..MaxPat (pattern 0: every child present)
MaxPat == 4
\* reordered runs: test matrices 0..MaxParSeed, presence patterns 0..MaxParPat,
\* and at most MaxParLines block rows (columns) in the right-hand side of a solve
MaxParSeed == 2
MaxParPat == 1
MaxParLines == 2
\* admissibility: clusters of 0..MaxClusterSize degrees of freedom
MaxClusterSize == 6
\* settings: sample values 0..MaxSettingsSeed of the plain fields
MaxSettingsSeed == 1
\* arrays: at most MaxViews views of the lender, at most MaxWrites element writes
MaxViews == 2
MaxWrites == 1

(***************************************************************************)
(* The scalars: the exact field GF(5).                                     *)
(***************************************************************************)
Field == {0, 1, 2, 3, 4}
P == Cardinality(Field)
Add(x, y) == (x + y) % P
Sub(x, y) == (x + P - y) % P
Mul(x, y) == (x * y) % P
Neg(x) == (P - x) % P
Inv(x) == CHOOSE y \in Field : x = 0 \/ Mul(x, y) = 1
IsSquare(x) == \E y \in Field : Mul(y, y) = x
Sqrt(x) == CHOOSE y \in Field : Mul(y, y) = x /\ \A z \in Field : Mul(z, z) = x => y <= z

\* an absent child: get(i,j) returns a null pointer
NULL == -1

(***************************************************************************)
(* Loops.  SeqFor(lo, hi, F) is the sequence of what the body F issues for *)
(* lo, lo+1, ..., hi; SeqDown(hi, lo, F) the same for hi, hi-1, ..., lo.   *)
(***************************************************************************)
SeqFor(lo, hi, F(_)) ==
  LET f[k \in lo..(hi + 1)] == IF k > hi THEN <<>> ELSE F(k) \o f[k + 1]
  IN  IF lo > hi THEN <<>> ELSE f[lo]

SeqDown(hi, lo, F(_)) ==
  LET f[k \in (lo - 1)..hi] == IF k < lo THEN <<>> ELSE F(k) \o f[k - 1]
  IN  IF lo > hi THEN <<>> ELSE f[hi]

(***************************************************************************)
(* Calls.  A child is named by <<matrix, i, j>>: me()->get(i,j) is         *)
(* <<"me", i, j>>, b->get(i,j) is <<"b", i, j>>, m->get(i,j) <<"m", i, j>>,*)
(* d->get(k,k) <<"d", k, k>>, the leaf d itself <<"d", -1, -1>> and the    *)
(* temporary x <<"x", 0, 0>>.  A call records the method, the receiver,    *)
(* the arguments that are matrices, the other arguments (as strings), the  *)
(* children the enclosing if-conditions test, and the loop position        *)
(* <<k, statement, i, j>> that issued it.                                  *)
(***************************************************************************)
NoCell == <<"-", 0, 0>>
Me(i, j) == <<"me", i, j>>
B(i, j) == <<"b", i, j>>
M(i, j) == <<"m", i, j>>
D(k) == <<"d", k, k>>
DLeaf == <<"d", -1, -1>>
X == <<"x", 0, 0>>

BoolStr(f) == IF f THEN "true" ELSE "false"

Call(op, recv, a1, a2, a3, fl, guard, at) ==
  [op |-> op, recv |-> recv, a1 |-> a1, a2 |-> a2, a3 |-> a3,
   fl |-> fl, guard |-> guard, at |-> at]

(***************************************************************************)
(* Faulty variant of block LDLT: the update runs over the whole row        *)
(* j = k+1 .. n-1 instead of j <= i.                                       *)
(***************************************************************************)
LdltUpdateWholeRow(nr) ==
  SeqFor(0, nr - 1, LAMBDA k :
    <<Call("ldltDecomposition", Me(k, k), NoCell, NoCell, NoCell, <<>>, {}, <<k, 0, k, k>>)>>
    \o SeqFor(k + 1, nr - 1, LAMBDA i :
         <<Call("solveUpperTriangularRight", Me(k, k), Me(i, k), NoCell, NoCell,
                <<"false", "true">>, {}, <<k, 1, i, k>>),
           Call("multiplyWithDiag", Me(i, k), Me(k, k), NoCell, NoCell,
                <<"false", "true">>, {}, <<k, 1, i, k>>)>>)
    \o SeqFor(k + 1, nr - 1, LAMBDA i :
         SeqFor(k + 1, nr - 1, LAMBDA j :
           IF i = j
             THEN <<Call("mdmtProduct", Me(i, i), Me(i, k), Me(k, k), NoCell,
                         <<>>, {}, <<k, 2, i, j>>)>>
             ELSE <<Call("mdntProduct", Me(i, j), Me(i, k), Me(k, k), Me(j, k),
                         <<>>, {}, <<k, 2, i, j>>)>>)))

(***************************************************************************)
(* recursion.cpp:36-75                                                     *)
(***************************************************************************)
recursiveLdltDecomposition(nr) ==
  SeqFor(0, nr - 1, LAMBDA k :
    <<Call("ldltDecomposition", Me(k, k), NoCell, NoCell, NoCell, <<>>, {}, <<k, 0, k, k>>)>>
    \o SeqFor(k + 1, nr - 1, LAMBDA i :
         <<Call("solveUpperTriangularRight", Me(k, k), Me(i, k), NoCell, NoCell,
                <<"false", "true">>, {}, <<k, 1, i, k>>),
           Call("multiplyWithDiag", Me(i, k), Me(k, k), NoCell, NoCell,
                <<"false", "true">>, {}, <<k, 1, i, k>>)>>)
    \o SeqFor(k + 1, nr - 1, LAMBDA i :
         SeqFor(k + 1, i, LAMBDA j :
           IF i = j
             THEN <<Call("mdmtProduct", Me(i, i), Me(i, k), Me(k, k), NoCell,
                         <<>>, {}, <<k, 2, i, j>>)>>
             ELSE <<Call("mdntProduct", Me(i, j), Me(i, k), Me(k, k), Me(j, k),
                         <<>>, {}, <<k, 2, i, j>>)>>)))

(***************************************************************************)
(* Faulty variant of the block solve-right: lowerStored is ignored when    *)
(* the block of U is chosen.                                               *)
(***************************************************************************)
SolveRightIgnoresLowerStored(nbr, nr, unitriangular, lowerStored) ==
  SeqFor(0, nbr - 1, LAMBDA k :
    SeqFor(0, nr - 1, LAMBDA i :
      SeqFor(0, i - 1, LAMBDA j :
        <<Call("gemm", B(k, i), B(k, j), Me(j, i), NoCell,
               <<"N", IF lowerStored THEN "T" ELSE "N", "mone", "pone">>,
               {B(k, i), B(k, j), Me(j, i)}, <<k, 0, i, j>>)>>)
      \o <<Call("solveUpperTriangularRight", Me(i, i), B(k, i), NoCell, NoCell,
                <<BoolStr(unitriangular), BoolStr(lowerStored)>>,
                {B(k, i)}, <<k, 1, i, i>>)>>))

(***************************************************************************)
(* recursion.cpp:77-100.  nbr is b->nrChildRow(), nr is me()->nrChildRow().*)
(***************************************************************************)
recursiveSolveUpperTriangularRight(nbr, nr, unitriangular, lowerStored) ==
  SeqFor(0, nbr - 1, LAMBDA k :
    SeqFor(0, nr - 1, LAMBDA i :
      SeqFor(0, i - 1, LAMBDA j :
        LET u == IF lowerStored THEN Me(i, j) ELSE Me(j, i)
        IN  <<Call("gemm", B(k, i), B(k, j), u, NoCell,
                   <<"N", IF lowerStored THEN "T" ELSE "N", "mone", "pone">>,
                   {B(k, i), B(k, j), u}, <<k, 0, i, j>>)>>)
      \o <<Call("solveUpperTriangularRight", Me(i, i), B(k, i), NoCell, NoCell,
                <<BoolStr(unitriangular), BoolStr(lowerStored)>>,
                {B(k, i)}, <<k, 1, i, i>>)>>))

(***************************************************************************)
(* recursion.cpp:102-132.  nr is me()->nrChildRow().                       *)
(***************************************************************************)
recursiveMdmtProduct(nr, dIsLeaf) ==
  SeqFor(0, nr - 1, LAMBDA i :
    SeqFor(0, i, LAMBDA j :
      SeqFor(0, nr - 1, LAMBDA k :
        IF i = j
          THEN IF dIsLeaf
                 THEN <<Call("mdmtProduct", Me(i, i), M(i, 0), DLeaf, NoCell,
                             <<>>, {}, <<k, 0, i, j>>)>>
                 ELSE <<Call("mdmtProduct", Me(i, i), M(i, k), D(k), NoCell,
                             <<>>, {}, <<k, 0, i, j>>)>>
          ELSE IF dIsLeaf
                 THEN <<Call("mdntProduct", Me(i, j), M(i, 0), DLeaf, M(j, 0),
                             <<>>, {}, <<k, 0, i, j>>)>>
                 ELSE <<Call("mdntProduct", Me(i, j), M(i, k), D(k), M(j, k),
                             <<>>, {}, <<k, 0, i, j>>)>>)))

(***************************************************************************)
(* Faulty variant of the block solve-left: the test of B[i,k] is missing,  *)
(* so an absent block is handed to the diagonal solve.                     *)
(***************************************************************************)
SolveLowerLeftWithoutContinue(nbc, nr, unitriangular) ==
  SeqFor(0, nbc - 1, LAMBDA k :
    SeqFor(0, nr - 1, LAMBDA i :
      SeqFor(0, i - 1, LAMBDA j :
        <<Call("gemm", B(i, k), Me(i, j), B(j, k), NoCell,
               <<"N", "N", "mone", "pone">>,
               {B(i, k), Me(i, j), B(j, k)}, <<k, 0, i, j>>)>>)
      \o <<Call("solveLowerTriangularLeft", Me(i, i), B(i, k), NoCell, NoCell,
                <<BoolStr(unitriangular)>>, {}, <<k, 1, i, i>>)>>))

(***************************************************************************)
(* recursion.cpp:134-158.  nbc is b->nrChildCol().                         *)
(***************************************************************************)
recursiveSolveLowerTriangularLeft(nbc, nr, unitriangular) ==
  SeqFor(0, nbc - 1, LAMBDA k :
    SeqFor(0, nr - 1, LAMBDA i :
      SeqFor(0, i - 1, LAMBDA j :
        <<Call("gemm", B(i, k), Me(i, j), B(j, k), NoCell,
               <<"N", "N", "mone", "pone">>,
               {B(i, k), Me(i, j), B(j, k)}, <<k, 0, i, j>>)>>)
      \o <<Call("solveLowerTriangularLeft", Me(i, i), B(i, k), NoCell, NoCell,
                <<BoolStr(unitriangular)>>, {B(i, k)}, <<k, 1, i, i>>)>>))

(***************************************************************************)
(* Faulty variant of block LU: the trailing update starts at row k instead *)
(* of row k+1, and so rewrites the row it reads.                           *)
(***************************************************************************)
LuUpdateFromRowK(nr) ==
  SeqFor(0, nr - 1, LAMBDA k :
    <<Call("luDecomposition", Me(k, k), NoCell, NoCell, NoCell, <<>>, {}, <<k, 0, k, k>>)>>
    \o SeqFor(k + 1, nr - 1, LAMBDA i :
         <<Call("solveLowerTriangularLeft", Me(k, k), Me(k, i), NoCell, NoCell,
                <<"true">>, {Me(k, k), Me(k, i)}, <<k, 1, k, i>>)>>)
    \o SeqFor(k + 1, nr - 1, LAMBDA i :
         <<Call("solveUpperTriangularRight", Me(k, k), Me(i, k), NoCell, NoCell,
                <<"false", "false">>, {Me(k, k), Me(i, k)}, <<k, 2, i, k>>)>>)
    \o SeqFor(k, nr - 1, LAMBDA i :
         SeqFor(k + 1, nr - 1, LAMBDA j :
           <<Call("gemm", Me(i, j), Me(i, k), Me(k, j), NoCell,
                  <<"N", "N", "mone", "pone">>,
                  {Me(i, j), Me(i, k), Me(k, j)}, <<k, 3, i, j>>)>>)))

(***************************************************************************)
(* Faulty variants of block LU, against which the properties are tested:   *)
(* the trailing update issued before the column solves; and the trailing   *)
(* update restricted to j <= i as in the symmetric factorisations.         *)
(***************************************************************************)
LuUpdateBeforeColumnSolve(nr) ==
  SeqFor(0, nr - 1, LAMBDA k :
    <<Call("luDecomposition", Me(k, k), NoCell, NoCell, NoCell, <<>>, {}, <<k, 0, k, k>>)>>
    \o SeqFor(k + 1, nr - 1, LAMBDA i :
         <<Call("solveLowerTriangularLeft", Me(k, k), Me(k, i), NoCell, NoCell,
                <<"true">>, {Me(k, k), Me(k, i)}, <<k, 1, k, i>>)>>)
    \o SeqFor(k + 1, nr - 1, LAMBDA i :
         SeqFor(k + 1, nr - 1, LAMBDA j :
           <<Call("gemm", Me(i, j), Me(i, k), Me(k, j), NoCell,
                  <<"N", "N", "mone", "pone">>,
                  {Me(i, j), Me(i, k), Me(k, j)}, <<k, 3, i, j>>)>>))
    \o SeqFor(k + 1, nr - 1, LAMBDA i :
         <<Call("solveUpperTriangularRight", Me(k, k), Me(i, k), NoCell, NoCell,
                <<"false", "false">>, {Me(k, k), Me(i, k)}, <<k, 2, i, k>>)>>))

LuUpdateBelowDiagonalOnly(nr) ==
  SeqFor(0, nr - 1, LAMBDA k :
    <<Call("luDecomposition", Me(k, k), NoCell, NoCell, NoCell, <<>>, {}, <<k, 0, k, k>>)>>
    \o SeqFor(k + 1, nr - 1, LAMBDA i :
         <<Call("solveLowerTriangularLeft", Me(k, k), Me(k, i), NoCell, NoCell,
                <<"true">>, {Me(k, k), Me(k, i)}, <<k, 1, k, i>>)>>)
    \o SeqFor(k + 1, nr - 1, LAMBDA i :
         <<Call("solveUpperTriangularRight", Me(k, k), Me(i, k), NoCell, NoCell,
                <<"false", "false">>, {Me(k, k), Me(i, k)}, <<k, 2, i, k>>)>>)
    \o SeqFor(k + 1, nr - 1, LAMBDA i :
         SeqFor(k + 1, i, LAMBDA j :
           <<Call("gemm", Me(i, j), Me(i, k), Me(k, j), NoCell,
                  <<"N", "N", "mone", "pone">>,
                  {Me(i, j), Me(i, k), Me(k, j)}, <<k, 3, i, j>>)>>)))

(***************************************************************************)
(* recursion.cpp:160-200                                                   *)
(***************************************************************************)
recursiveLuDecomposition(nr) ==
  SeqFor(0, nr - 1, LAMBDA k :
    <<Call("luDecomposition", Me(k, k), NoCell, NoCell, NoCell, <<>>, {}, <<k, 0, k, k>>)>>
    \o SeqFor(k + 1, nr - 1, LAMBDA i :
         <<Call("solveLowerTriangularLeft", Me(k, k), Me(k, i), NoCell, NoCell,
                <<"true">>, {Me(k, k), Me(k, i)}, <<k, 1, k, i>>)>>)
    \o SeqFor(k + 1, nr - 1, LAMBDA i :
         <<Call("solveUpperTriangularRight", Me(k, k), Me(i, k), NoCell, NoCell,
                <<"false", "false">>, {Me(k, k), Me(i, k)}, <<k, 2, i, k>>)>>)
    \o SeqFor(k + 1, nr - 1, LAMBDA i :
         SeqFor(k + 1, nr - 1, LAMBDA j :
           <<Call("gemm", Me(i, j), Me(i, k), Me(k, j), NoCell,
                  <<"N", "N", "mone", "pone">>,
                  {Me(i, j), Me(i, k), Me(k, j)}, <<k, 3, i, j>>)>>)))

(***************************************************************************)
(* Faulty variant of block inverse: the row update reads its destination   *)
(* M[k,j] in place of the temporary copy.                                  *)
(***************************************************************************)
InverseRowUpdateInPlace(nr, nc) ==
  SeqFor(0, nr - 1, LAMBDA k :
    <<Call("inverse", Me(k, k), NoCell, NoCell, NoCell, <<>>, {}, <<k, 0, k, k>>)>>
    \o SeqFor(0, nc - 1, LAMBDA j :
         IF j # k
           THEN <<Call("copy", Me(k, j), NoCell, NoCell, NoCell, <<>>, {}, <<k, 1, k, j>>),
                  Call("gemm", Me(k, j), Me(k, k), Me(k, j), NoCell,
                       <<"N", "N", "pone", "zero">>, {}, <<k, 1, k, j>>),
                  Call("destroy", X, NoCell, NoCell, NoCell, <<>>, {}, <<k, 1, k, j>>)>>
           ELSE <<>>)
    \o SeqFor(0, nr - 1, LAMBDA i :
         SeqFor(0, nc - 1, LAMBDA j :
           IF i # k /\ j # k
             THEN <<Call("gemm", Me(i, j), Me(i, k), Me(k, j), NoCell,
                         <<"N", "N", "mone", "pone">>, {}, <<k, 2, i, j>>)>>
             ELSE <<>>))
    \o SeqFor(0, nr - 1, LAMBDA i :
         IF i # k
           THEN <<Call("copy", Me(i, k), NoCell, NoCell, NoCell, <<>>, {}, <<k, 3, i, k>>),
                  Call("gemm", Me(i, k), X, Me(k, k), NoCell,
                       <<"N", "N", "mone", "zero">>, {}, <<k, 3, i, k>>),
                  Call("destroy", X, NoCell, NoCell, NoCell, <<>>, {}, <<k, 3, i, k>>)>>
           ELSE <<>>))

(***************************************************************************)
(* Faulty variant of block inverse: the temporary of the column update is  *)
(* never destroyed.                                                        *)
(***************************************************************************)
InverseColumnTemporaryLeaks(nr, nc) ==
  SeqFor(0, nr - 1, LAMBDA k :
    <<Call("inverse", Me(k, k), NoCell, NoCell, NoCell, <<>>, {}, <<k, 0, k, k>>)>>
    \o SeqFor(0, nc - 1, LAMBDA j :
         IF j # k
           THEN <<Call("copy", Me(k, j), NoCell, NoCell, NoCell, <<>>, {}, <<k, 1, k, j>>),
                  Call("gemm", Me(k, j), Me(k, k), X, NoCell,
                       <<"N", "N", "pone", "zero">>, {}, <<k, 1, k, j>>),
                  Call("destroy", X, NoCell, NoCell, NoCell, <<>>, {}, <<k, 1, k, j>>)>>
           ELSE <<>>)
    \o SeqFor(0, nr - 1, LAMBDA i :
         SeqFor(0, nc - 1, LAMBDA j :
           IF i # k /\ j # k
             THEN <<Call("gemm", Me(i, j), Me(i, k), Me(k, j), NoCell,
                         <<"N", "N", "mone", "pone">>, {}, <<k, 2, i, j>>)>>
             ELSE <<>>))
    \o SeqFor(0, nr - 1, LAMBDA i :
         IF i # k
           THEN <<Call("copy", Me(i, k), NoCell, NoCell, NoCell, <<>>, {}, <<k, 3, i, k>>),
                  Call("gemm", Me(i, k), X, Me(k, k), NoCell,
                       <<"N", "N", "mone", "zero">>, {}, <<k, 3, i, k>>)>>
           ELSE <<>>))

(***************************************************************************)
(* Faulty variant of the block inverse: column k is updated before the     *)
(* rest of the matrix.                                                     *)
(***************************************************************************)
InverseColumnUpdateFirst(nr, nc) ==
  SeqFor(0, nr - 1, LAMBDA k :
    <<Call("inverse", Me(k, k), NoCell, NoCell, NoCell, <<>>, {}, <<k, 0, k, k>>)>>
    \o SeqFor(0, nc - 1, LAMBDA j :
         IF j # k
           THEN <<Call("copy", Me(k, j), NoCell, NoCell, NoCell, <<>>, {}, <<k, 1, k, j>>),
                  Call("gemm", Me(k, j), Me(k, k), X, NoCell,
                       <<"N", "N", "pone", "zero">>, {}, <<k, 1, k, j>>),
                  Call("destroy", X, NoCell, NoCell, NoCell, <<>>, {}, <<k, 1, k, j>>)>>
           ELSE <<>>)
    \o SeqFor(0, nr - 1, LAMBDA i :
         IF i # k
           THEN <<Call("copy", Me(i, k), NoCell, NoCell, NoCell, <<>>, {}, <<k, 3, i, k>>),
                  Call("gemm", Me(i, k), X, Me(k, k), NoCell,
                       <<"N", "N", "mone", "zero">>, {}, <<k, 3, i, k>>),
                  Call("destroy", X, NoCell, NoCell, NoCell, <<>>, {}, <<k, 3, i, k>>)>>
           ELSE <<>>)
    \o SeqFor(0, nr - 1, LAMBDA i :
         SeqFor(0, nc - 1, LAMBDA j :
           IF i # k /\ j # k
             THEN <<Call("gemm", Me(i, j), Me(i, k), Me(k, j), NoCell,
                         <<"N", "N", "mone", "pone">>, {}, <<k, 2, i, j>>)>>
             ELSE <<>>)))

(***************************************************************************)
(* recursion.cpp:202-249.  nr is nrChildRow(), nc is nrChildCol().         *)
(***************************************************************************)
recursiveInverseNosym(nr, nc) ==
  SeqFor(0, nr - 1, LAMBDA k :
    <<Call("inverse", Me(k, k), NoCell, NoCell, NoCell, <<>>, {}, <<k, 0, k, k>>)>>
    \o SeqFor(0, nc - 1, LAMBDA j :
         IF j # k
           THEN <<Call("copy", Me(k, j), NoCell, NoCell, NoCell, <<>>, {}, <<k, 1, k, j>>),
                  Call("gemm", Me(k, j), Me(k, k), X, NoCell,
                       <<"N", "N", "pone", "zero">>, {}, <<k, 1, k, j>>),
                  Call("destroy", X, NoCell, NoCell, NoCell, <<>>, {}, <<k, 1, k, j>>)>>
           ELSE <<>>)
    \o SeqFor(0, nr - 1, LAMBDA i :
         SeqFor(0, nc - 1, LAMBDA j :
           IF i # k /\ j # k
             THEN <<Call("gemm", Me(i, j), Me(i, k), Me(k, j), NoCell,
                         <<"N", "N", "mone", "pone">>, {}, <<k, 2, i, j>>)>>
             ELSE <<>>))
    \o SeqFor(0, nr - 1, LAMBDA i :
         IF i # k
           THEN <<Call("copy", Me(i, k), NoCell, NoCell, NoCell, <<>>, {}, <<k, 3, i, k>>),
                  Call("gemm", Me(i, k), X, Me(k, k), NoCell,
                       <<"N", "N", "mone", "zero">>, {}, <<k, 3, i, k>>),
                  Call("destroy", X, NoCell, NoCell, NoCell, <<>>, {}, <<k, 3, i, k>>)>>
           ELSE <<>>))

(***************************************************************************)
(* Faulty variant of block LLT: the update is issued as gemm('N','N').     *)
(***************************************************************************)
LltUpdateNotTransposed(nr) ==
  SeqFor(0, nr - 1, LAMBDA k :
    <<Call("lltDecomposition", Me(k, k), NoCell, NoCell, NoCell, <<>>, {}, <<k, 0, k, k>>)>>
    \o SeqFor(k + 1, nr - 1, LAMBDA i :
         <<Call("solveUpperTriangularRight", Me(k, k), Me(i, k), NoCell, NoCell,
                <<"false", "true">>, {}, <<k, 1, i, k>>)>>)
    \o SeqFor(k + 1, nr - 1, LAMBDA i :
         SeqFor(k + 1, i, LAMBDA j :
           <<Call("gemm", Me(i, j), Me(i, k), Me(j, k), NoCell,
                  <<"N", "N", "mone", "pone">>, {}, <<k, 2, i, j>>)>>)))

(***************************************************************************)
(* recursion.cpp:251-283                                                   *)
(***************************************************************************)
recursiveLltDecomposition(nr) ==
  SeqFor(0, nr - 1, LAMBDA k :
    <<Call("lltDecomposition", Me(k, k), NoCell, NoCell, NoCell, <<>>, {}, <<k, 0, k, k>>)>>
    \o SeqFor(k + 1, nr - 1, LAMBDA i :
         <<Call("solveUpperTriangularRight", Me(k, k), Me(i, k), NoCell, NoCell,
                <<"false", "true">>, {}, <<k, 1, i, k>>)>>)
    \o SeqFor(k + 1, nr - 1, LAMBDA i :
         SeqFor(k + 1, i, LAMBDA j :
           <<Call("gemm", Me(i, j), Me(i, k), Me(j, k), NoCell,
                  <<"N", "T", "mone", "pone">>, {}, <<k, 2, i, j>>)>>)))

(***************************************************************************)
(* Faulty variant of the upper block solve-left: the update reads the      *)
(* solved row in block column 0 instead of block column k.                 *)
(***************************************************************************)
SolveUpperLeftReadsColumn0(nbc, nr, unitriangular, lowerStored) ==
  SeqFor(0, nbc - 1, LAMBDA k :
    SeqDown(nr - 1, 0, LAMBDA i :
      <<Call("solveUpperTriangularLeft", Me(i, i), B(i, k), NoCell, NoCell,
             <<BoolStr(unitriangular), BoolStr(lowerStored)>>, {}, <<k, 0, i, i>>)>>
      \o SeqFor(0, i - 1, LAMBDA j :
           LET u_ji == IF lowerStored THEN Me(i, j) ELSE Me(j, i)
           IN  <<Call("gemm", B(j, k), u_ji, B(i, 0), NoCell,
                      <<IF lowerStored THEN "T" ELSE "N", "N", "mone", "pone">>,
                      {}, <<k, 1, i, j>>)>>)))

(***************************************************************************)
(* Faulty variant of the upper block solve-left: the rows are taken in     *)
(* increasing order, as in the lower solve.                                *)
(***************************************************************************)
SolveUpperLeftAscending(nbc, nr, unitriangular, lowerStored) ==
  SeqFor(0, nbc - 1, LAMBDA k :
    SeqFor(0, nr - 1, LAMBDA i :
      <<Call("solveUpperTriangularLeft", Me(i, i), B(i, k), NoCell, NoCell,
             <<BoolStr(unitriangular), BoolStr(lowerStored)>>, {}, <<k, 0, i, i>>)>>
      \o SeqFor(0, i - 1, LAMBDA j :
           LET u_ji == IF lowerStored THEN Me(i, j) ELSE Me(j, i)
           IN  <<Call("gemm", B(j, k), u_ji, B(i, k), NoCell,
                      <<IF lowerStored THEN "T" ELSE "N", "N", "mone", "pone">>,
                      {}, <<k, 1, i, j>>)>>)))

(***************************************************************************)
(* recursion.cpp:285-309.  nbc is b->nrChildCol().                         *)
(***************************************************************************)
recursiveSolveUpperTriangularLeft(nbc, nr, unitriangular, lowerStored) ==
  SeqFor(0, nbc - 1, LAMBDA k :
    SeqDown(nr - 1, 0, LAMBDA i :
      <<Call("solveUpperTriangularLeft", Me(i, i), B(i, k), NoCell, NoCell,
             <<BoolStr(unitriangular), BoolStr(lowerStored)>>, {}, <<k, 0, i, i>>)>>
      \o SeqFor(0, i - 1, LAMBDA j :
           LET u_ji == IF lowerStored THEN Me(i, j) ELSE Me(j, i)
           IN  <<Call("gemm", B(j, k), u_ji, B(i, k), NoCell,
                      <<IF lowerStored THEN "T" ELSE "N", "N", "mone", "pone">>,
                      {}, <<k, 1, i, j>>)>>)))

(***************************************************************************)
(* The state.                                                              *)
(***************************************************************************)
VARIABLES
  prog,           \* the routine that runs
  n,              \* me()->nrChildRow() = me()->nrChildCol()
  nb,             \* b->nrChildRow() (solve right) or b->nrChildCol() (solve left)
  unitriangular,  \* argument of the triangular solves
  lowerStored,    \* argument of the upper triangular solves
  dIsLeaf,        \* d->isLeaf() in recursiveMdmtProduct
  program,        \* the statements of the routine on these arguments, in program order
  seed,           \* number of the test matrices the run started with
  pat,            \* number of the presence pattern the run started with
  me,             \* the children of this: <<i, j>> -> scalar or NULL
  meDiag,         \* the diagonal D an LDLT-factorised child (k,k) of this holds
  b,              \* the children of the right-hand side b
  m,              \* the children of the operand m of recursiveMdmtProduct
  d,              \* the diagonals of the children (k,k) of the operand d; d[-1]: of the leaf d
  x,              \* the temporary copy x of recursiveInverseNosym, NULL when none
  status,         \* "run", "done", "singular" (a factorisation failed), "nullDeref"
  log,            \* the calls issued so far, in order
  pc,             \* sequential run: position in the routine's sequence of calls
  done,           \* reordered run: positions of the statements already executed
  reordered,      \* reordered run: a statement ran before an earlier one of the program
  adm,            \* a call of the tall-skinny admissibility condition
  arr,            \* the ScalarArray objects and the storage they address
  api             \* the settings singleton and the caller's hmat_settings_t

vars == <<prog, n, nb, unitriangular, lowerStored, dIsLeaf, program, seed, pat,
          me, meDiag, b, m, d, x, status, log, pc, done, reordered, adm, arr, api>>
params == <<prog, n, nb, unitriangular, lowerStored, dIsLeaf, program, seed, pat>>
\* the variables of the other components, which a run of a block routine leaves alone
others == <<adm, arr, api>>
\* the variables of the block routines
blocks == <<prog, n, nb, unitriangular, lowerStored, dIsLeaf, program, seed, pat,
            me, meDiag, b, m, d, x, status, log, pc, done, reordered>>
\* a component that is not in use
Idle == [phase |-> "idle"]

Progs == {"recursiveLdltDecomposition", "recursiveSolveUpperTriangularRight",
          "recursiveMdmtProduct", "recursiveSolveLowerTriangularLeft",
          "recursiveLuDecomposition", "recursiveInverseNosym",
          "recursiveLltDecomposition", "recursiveSolveUpperTriangularLeft"}
Solves == {"recursiveSolveUpperTriangularRight", "recursiveSolveLowerTriangularLeft",
           "recursiveSolveUpperTriangularLeft"}

\* the sequence of calls of routine p on these arguments
ProgramOf(p, nr, nbb, unit, lower, leaf) ==
  CASE p = "recursiveLdltDecomposition" -> recursiveLdltDecomposition(nr)
    [] p = "recursiveSolveUpperTriangularRight" ->
         recursiveSolveUpperTriangularRight(nbb, nr, unit, lower)
    [] p = "recursiveMdmtProduct" -> recursiveMdmtProduct(nr, leaf)
    [] p = "recursiveSolveLowerTriangularLeft" ->
         recursiveSolveLowerTriangularLeft(nbb, nr, unit)
    [] p = "recursiveLuDecomposition" -> recursiveLuDecomposition(nr)
    [] p = "recursiveInverseNosym" -> recursiveInverseNosym(nr, nr)
    [] p = "recursiveLltDecomposition" -> recursiveLltDecomposition(nr)
    [] p = "recursiveSolveUpperTriangularLeft" ->
         recursiveSolveUpperTriangularLeft(nbb, nr, unit, lower)

(***************************************************************************)
(* The children's methods, on scalar children.  s is the record of the     *)
(* matrices, the status and the log.                                       *)
(***************************************************************************)
Get(s, r) ==
  CASE r[1] = "me" -> s.me[<<r[2], r[3]>>]
    [] r[1] = "b" -> s.b[<<r[2], r[3]>>]
    [] r[1] = "m" -> s.m[<<r[2], r[3]>>]
    [] r[1] = "d" -> s.d[r[2]]
    [] r[1] = "x" -> s.x
    [] OTHER -> NULL

Put(s, r, v) ==
  CASE r[1] = "me" -> [s EXCEPT !.me[<<r[2], r[3]>>] = v]
    [] r[1] = "b" -> [s EXCEPT !.b[<<r[2], r[3]>>] = v]
    [] r[1] = "m" -> [s EXCEPT !.m[<<r[2], r[3]>>] = v]
    [] r[1] = "x" -> [s EXCEPT !.x = v]
    [] OTHER -> s

\* the diagonal D held by the LDLT-factorised block r
DiagOf(s, r) == IF r[1] = "me" THEN s.meDiag[r[2]] ELSE s.d[r[2]]

Fail(s, why) == [s EXCEPT !.status = why]

\* Hkk <- Lkk * Ukk: L has a unit diagonal, so a scalar child keeps U = h
luDecomposition(s, c) ==
  IF Get(s, c.recv) = 0 THEN Fail(s, "singular") ELSE s

\* Hkk <- Lkk * Dk * tLkk: the child keeps the unit L and the diagonal D
ldltDecomposition(s, c) ==
  IF Get(s, c.recv) = 0 THEN Fail(s, "singular")
  ELSE [Put(s, c.recv, 1) EXCEPT !.meDiag[c.recv[2]] = Get(s, c.recv)]

\* Hkk <- Lkk * tLkk
lltDecomposition(s, c) ==
  LET h == Get(s, c.recv)
  IN  IF h = 0 \/ ~IsSquare(h) THEN Fail(s, "singular") ELSE Put(s, c.recv, Sqrt(h))

inverse(s, c) ==
  IF Get(s, c.recv) = 0 THEN Fail(s, "singular") ELSE Put(s, c.recv, Inv(Get(s, c.recv)))

\* the receiver is the triangular factor, a1 the right-hand side, solved in place
TriangularSolve(s, c) ==
  IF c.fl[1] = "true" THEN s
  ELSE IF Get(s, c.recv) = 0 THEN Fail(s, "singular")
  ELSE Put(s, c.a1, Mul(Get(s, c.a1), Inv(Get(s, c.recv))))

solveLowerTriangularLeft(s, c) == TriangularSolve(s, c)
solveUpperTriangularRight(s, c) == TriangularSolve(s, c)
solveUpperTriangularLeft(s, c) == TriangularSolve(s, c)

\* multiplyWithDiag(d, left, inverse): this <- this * D^-1 when inverse
multiplyWithDiag(s, c) ==
  LET dk == DiagOf(s, c.a1)
  IN  IF c.fl[2] = "true"
        THEN IF dk = 0 THEN Fail(s, "singular")
             ELSE Put(s, c.recv, Mul(Get(s, c.recv), Inv(dk)))
        ELSE Put(s, c.recv, Mul(Get(s, c.recv), dk))

\* this -= M.D.tM
mdmtProduct(s, c) ==
  Put(s, c.recv, Sub(Get(s, c.recv),
                     Mul(Mul(Get(s, c.a1), DiagOf(s, c.a2)), Get(s, c.a1))))

\* this -= M.D.tN
mdntProduct(s, c) ==
  Put(s, c.recv, Sub(Get(s, c.recv),
                     Mul(Mul(Get(s, c.a1), DiagOf(s, c.a2)), Get(s, c.a3))))

Scalar(name) == CASE name = "pone" -> 1 [] name = "mone" -> P - 1 [] name = "zero" -> 0

\* this <- alpha * op(a) * op(b) + beta * this
gemm(s, c) ==
  Put(s, c.recv, Add(Mul(Scalar(c.fl[3]), Mul(Get(s, c.a1), Get(s, c.a2))),
                     Mul(Scalar(c.fl[4]), Get(s, c.recv))))

copy(s, c) == Put(s, X, Get(s, c.recv))
destroy(s, c) == Put(s, X, NULL)

Apply(s, c) ==
  CASE c.op = "luDecomposition" -> luDecomposition(s, c)
    [] c.op = "ldltDecomposition" -> ldltDecomposition(s, c)
    [] c.op = "lltDecomposition" -> lltDecomposition(s, c)
    [] c.op = "inverse" -> inverse(s, c)
    [] c.op = "solveLowerTriangularLeft" -> solveLowerTriangularLeft(s, c)
    [] c.op = "solveUpperTriangularRight" -> solveUpperTriangularRight(s, c)
    [] c.op = "solveUpperTriangularLeft" -> solveUpperTriangularLeft(s, c)
    [] c.op = "multiplyWithDiag" -> multiplyWithDiag(s, c)
    [] c.op = "mdmtProduct" -> mdmtProduct(s, c)
    [] c.op = "mdntProduct" -> mdntProduct(s, c)
    [] c.op = "gemm" -> gemm(s, c)
    [] c.op = "copy" -> copy(s, c)
    [] c.op = "destroy" -> destroy(s, c)

\* the matrices a call names: its receiver and its matrix arguments
Operands(c) == {c.recv, c.a1, c.a2, c.a3} \ {NoCell}

\* the if-conditions around the call hold: every child they test is present
Guarded(s, c) == \A r \in c.guard : Get(s, r) # NULL

\* the call dereferences a null pointer
NullUse(s, c) == \E r \in Operands(c) : Get(s, r) = NULL

\* One statement of a routine: nothing when an enclosing if-condition fails;
\* otherwise the call is issued, and runs unless it dereferences a null child.
Exec(s, c) ==
  IF ~Guarded(s, c) THEN s
  ELSE LET s1 == [s EXCEPT !.log = Append(@, c)]
       IN  IF NullUse(s, c) THEN Fail(s1, "nullDeref") ELSE Apply(s1, c)

(***************************************************************************)
(* The inputs.  The values of test matrix number sd are pseudo-random      *)
(* scalars, one per child; presence pattern number pt leaves out children  *)
(* (pattern 0 leaves out none).  A diagonal child of this is always there, *)
(* except in block LU, whose grid may lack any child.                      *)
(***************************************************************************)
Rnd(sd, t) == ((sd + 1) * 89 + (t + 1) * 57 + (sd + 1) * (t + 1) * (sd + t + 2) * 13) % 251
Val(sd, t) == Rnd(sd, t) % P
NzVal(sd, t) == 1 + (Rnd(sd, t) % (P - 1))
Present(pt, t) == pt = 0 \/ Rnd(pt + 50, t) % 3 # 0

Cells(nr, nc) == (0..(nr - 1)) \X (0..(nc - 1))
MeIdx(i, j) == 8 * i + j
BIdx(i, j) == 64 + 8 * i + j
MIdx(i, j) == 128 + 8 * i + j
DIdx(k) == 193 + k
Min(i, j) == IF i <= j THEN i ELSE j
Max(i, j) == IF i <= j THEN j ELSE i

SumFor(lo, hi, F(_)) ==
  LET f[k \in lo..(hi + 1)] == IF k > hi THEN 0 ELSE Add(F(k), f[k + 1])
  IN  IF lo > hi THEN 0 ELSE f[lo]

\* a lower triangular factor with an invertible diagonal
Factor(sd, i, j) ==
  IF i = j THEN NzVal(sd, MeIdx(i, i)) ELSE IF j < i THEN Val(sd, MeIdx(i, j)) ELSE 0

\* the value of child (i,j) of this the run of routine p starts with
MeValue(p, sd, i, j) ==
  CASE p = "recursiveLltDecomposition" ->
         SumFor(0, Min(i, j), LAMBDA k : Mul(Factor(sd, i, k), Factor(sd, j, k)))
    [] p = "recursiveLdltDecomposition" -> Val(sd, MeIdx(Max(i, j), Min(i, j)))
    [] p \in Solves -> IF i = j THEN NzVal(sd, MeIdx(i, i)) ELSE Val(sd, MeIdx(i, j))
    [] OTHER -> Val(sd, MeIdx(i, j))

InitMe(p, nr, sd, pt) ==
  [c \in Cells(nr, nr) |->
     IF (c[1] # c[2] \/ p = "recursiveLuDecomposition") /\ ~Present(pt, MeIdx(c[1], c[2]))
       THEN NULL
     ELSE MeValue(p, sd, c[1], c[2])]

InitB(p, nr, nbb, sd, pt) ==
  IF p \notin Solves THEN <<>>
  ELSE [c \in (IF p = "recursiveSolveUpperTriangularRight"
                 THEN Cells(nbb, nr) ELSE Cells(nr, nbb)) |->
          IF Present(pt, BIdx(c[1], c[2])) THEN Val(sd, BIdx(c[1], c[2])) ELSE NULL]

InitM(p, nr, leaf, sd, pt) ==
  IF p # "recursiveMdmtProduct" THEN <<>>
  ELSE [c \in Cells(nr, IF leaf THEN 1 ELSE nr) |->
          IF Present(pt, MIdx(c[1], c[2])) THEN Val(sd, MIdx(c[1], c[2])) ELSE NULL]

InitD(p, nr, sd) ==
  IF p # "recursiveMdmtProduct" THEN <<>>
  ELSE [k \in (-1)..(nr - 1) |-> Val(sd, DIdx(k))]

\* the matrices, the status and the log as one record
State == [me |-> me, meDiag |-> meDiag, b |-> b, m |-> m, d |-> d, x |-> x,
          status |-> status, log |-> log]

InitState(p, nr, nbb, leaf, sd, pt) ==
  [me |-> InitMe(p, nr, sd, pt), meDiag |-> [k \in 0..(nr - 1) |-> NULL],
   b |-> InitB(p, nr, nbb, sd, pt), m |-> InitM(p, nr, leaf, sd, pt),
   d |-> InitD(p, nr, sd), x |-> NULL, status |-> "run", log |-> <<>>]

Start == InitState(prog, n, nb, dIsLeaf, seed, pat)

SetState(s) ==
  /\ me' = s.me /\ meDiag' = s.meDiag /\ b' = s.b /\ m' = s.m /\ d' = s.d
  /\ x' = s.x /\ status' = s.status /\ log' = s.log

InitWith(seeds, pats) ==
  /\ prog \in Progs
  /\ n \in 1..MaxN
  /\ nb \in (IF prog \in Solves THEN 1..MaxN ELSE {n})
  /\ unitriangular \in (IF prog \in Solves THEN BOOLEAN ELSE {FALSE})
  /\ lowerStored \in (IF prog \in {"recursiveSolveUpperTriangularRight",
                                   "recursiveSolveUpperTriangularLeft"}
                        THEN BOOLEAN ELSE {FALSE})
  /\ dIsLeaf \in (IF prog = "recursiveMdmtProduct" THEN BOOLEAN ELSE {FALSE})
  /\ program = ProgramOf(prog, n, nb, unitriangular, lowerStored, dIsLeaf)
  /\ seed \in seeds
  /\ pat \in pats
  /\ me = Start.me /\ meDiag = Start.meDiag /\ b = Start.b /\ m = Start.m
  /\ d = Start.d /\ x = Start.x /\ status = Start.status /\ log = Start.log
  /\ pc = 1
  /\ done = {}
  /\ reordered = FALSE
  /\ adm = Idle /\ arr = Idle /\ api = Idle

Init == InitWith(0..MaxSeed, 0..MaxPat)

(***************************************************************************)
(* The sequential run: the statement at pc is executed, one per step.      *)
(***************************************************************************)
\* the statement at pc is a call of method op
At(op) ==
  /\ status = "run"
  /\ pc <= Len(program)
  /\ program[pc].op = op

\* execute the statement at pc and move to the next one
Advance ==
  /\ SetState(Exec(State, program[pc]))
  /\ pc' = pc + 1
  /\ UNCHANGED <<params, done, reordered, others>>

LdltDecomposition ==
  /\ At("ldltDecomposition")
  /\ Advance

LltDecomposition ==
  /\ At("lltDecomposition")
  /\ Advance

LuDecomposition ==
  /\ At("luDecomposition")
  /\ Advance

Inverse ==
  /\ At("inverse")
  /\ Advance

SolveUpperTriangularRight ==
  /\ At("solveUpperTriangularRight")
  /\ Advance

SolveLowerTriangularLeft ==
  /\ At("solveLowerTriangularLeft")
  /\ Advance

SolveUpperTriangularLeft ==
  /\ At("solveUpperTriangularLeft")
  /\ Advance

MultiplyWithDiag ==
  /\ At("multiplyWithDiag")
  /\ Advance

MdmtProduct ==
  /\ At("mdmtProduct")
  /\ Advance

MdntProduct ==
  /\ At("mdntProduct")
  /\ Advance

Gemm ==
  /\ At("gemm")
  /\ Advance

Copy ==
  /\ At("copy")
  /\ Advance

Destroy ==
  /\ At("destroy")
  /\ Advance

\* the routine returns after its last statement
Return ==
  /\ status = "run"
  /\ pc > Len(program)
  /\ status' = "done"
  /\ UNCHANGED <<params, me, meDiag, b, m, d, x, log, pc, done, reordered, others>>

Next ==
  \/ LdltDecomposition \/ LltDecomposition \/ LuDecomposition \/ Inverse
  \/ SolveUpperTriangularRight \/ SolveLowerTriangularLeft \/ SolveUpperTriangularLeft
  \/ MultiplyWithDiag \/ MdmtProduct \/ MdntProduct \/ Gemm \/ Copy \/ Destroy
  \/ Return

Spec == Init /\ [][Next]_vars

(***************************************************************************)
(* The reordered run (spec.md, section 5): a task-parallel executor may    *)
(* run the independent iterations of a routine in any order.  In a         *)
(* triangular solve the iterations of the outer loop (one per block row or *)
(* block column k of b) are the tasks, each a chain of statements run in   *)
(* program order; in block LU every statement of a phase of step k (the    *)
(* row solves, the column solves, the trailing updates) is a task, and the *)
(* phases follow each other.  The statements are those of the routine; the *)
(* calls are executed as in the sequential run, but not logged.            *)
(***************************************************************************)
\* the phase a statement belongs to: phases run one after the other
SegOf(c) == IF prog \in Solves THEN 0 ELSE 4 * c.at[1] + c.at[2]
\* the task of its phase a statement belongs to
ChainOf(c) == IF prog \in Solves THEN <<c.at[1]>> ELSE <<c.at[3], c.at[4]>>

\* statement q may run: every earlier statement not yet run is of the same phase
\* and of another task
Eligible(q) ==
  /\ q \notin done
  /\ \A p \in 1..(q - 1) :
       p \notin done =>
         /\ SegOf(program[p]) = SegOf(program[q])
         /\ ChainOf(program[p]) # ChainOf(program[q])

ParCall ==
  /\ status = "run"
  /\ \E q \in 1..Len(program) :
       /\ Eligible(q)
       /\ SetState([Exec(State, program[q]) EXCEPT !.log = <<>>])
       /\ done' = done \cup {q}
       /\ reordered' = (reordered \/ \E p \in 1..(q - 1) : p \notin done)
  /\ UNCHANGED <<params, pc, others>>

ParReturn ==
  /\ status = "run"
  /\ done = 1..Len(program)
  /\ status' = "done"
  /\ UNCHANGED <<params, me, meDiag, b, m, d, x, log, pc, done, reordered, others>>

InitPar ==
  /\ InitWith(0..MaxParSeed, 0..MaxParPat)
  /\ prog \in Solves \cup {"recursiveLuDecomposition"}
  /\ prog \in Solves => nb <= MaxParLines

NextPar == ParCall \/ ParReturn

SpecPar == InitPar /\ [][NextPar]_vars

\* the state the sequential run of the statements prg[q], prg[q+1], ... ends in
RECURSIVE RunFrom(_, _, _)
RunFrom(s, prg, q) ==
  IF s.status # "run" THEN s
  ELSE IF q > Len(prg) THEN [s EXCEPT !.status = "done"]
  ELSE RunFrom(Exec(s, prg[q]), prg, q + 1)

SeqResult == RunFrom(Start, program, 1)

\* no block routine runs
NoRun ==
  /\ prog = "none" /\ n = 0 /\ nb = 0
  /\ unitriangular = FALSE /\ lowerStored = FALSE /\ dIsLeaf = FALSE
  /\ program = <<>> /\ seed = 0 /\ pat = 0
  /\ me = <<>> /\ meDiag = <<>> /\ b = <<>> /\ m = <<>> /\ d = <<>> /\ x = NULL
  /\ status = "idle" /\ log = <<>> /\ pc = 0 /\ done = {} /\ reordered = FALSE

(***************************************************************************)
(* Notions shared by the properties.                                       *)
(***************************************************************************)
\* the child a call writes: the right-hand side of a solve, else the receiver
Written(c) ==
  IF c.op \in {"solveLowerTriangularLeft", "solveUpperTriangularRight",
               "solveUpperTriangularLeft"}
    THEN c.a1
    ELSE IF c.op \in {"copy", "destroy"} THEN X ELSE c.recv

Positions == 1..Len(log)
Finished == status = "done"
\* the matrix this held when the routine was called
H0 == InitMe(prog, n, seed, pat)
B0 == InitB(prog, n, nb, seed, pat)
FullMe == \A c \in DOMAIN me : me[c] # NULL
FullB == \A c \in DOMAIN b : b[c] # NULL
Rows == 0..(n - 1)

(***************************************************************************)
(* C1.  Block LU issues its calls step by step and, inside a step, phase   *)
(* by phase: for every k the factorisation of H[k,k], then the row solves  *)
(* (unit lower solve-left of H[k,i], i > k), then the column solves (non   *)
(* unit upper solve-right of H[i,k], i > k), then the trailing updates of  *)
(* H[i,j], i,j > k; each call is issued once; and on a grid with every     *)
(* child present a call is issued only after every call of the earlier     *)
(* phases and steps, so that no call of step k+1 precedes the last         *)
(* trailing update of step k.                                              *)
(***************************************************************************)
IsLu == prog = "recursiveLuDecomposition"
LuStepOf(c) == IF c.op = "gemm" THEN c.a1[3] ELSE c.recv[2]
LuPhaseOf(c) ==
  CASE c.op = "luDecomposition" -> 0
    [] c.op = "solveLowerTriangularLeft" -> 1
    [] c.op = "solveUpperTriangularRight" -> 2
    [] c.op = "gemm" -> 3
    [] OTHER -> 4
LuShape(c) ==
  LET k == LuStepOf(c)
  IN  CASE c.op = "luDecomposition" -> c.recv = Me(k, k)
        [] c.op = "solveLowerTriangularLeft" ->
             /\ c.recv = Me(k, k) /\ c.a1[1] = "me" /\ c.a1[2] = k /\ c.a1[3] > k
             /\ c.fl = <<"true">>
        [] c.op = "solveUpperTriangularRight" ->
             /\ c.recv = Me(k, k) /\ c.a1[1] = "me" /\ c.a1[3] = k /\ c.a1[2] > k
             /\ c.fl = <<"false", "false">>
        [] c.op = "gemm" ->
             /\ c.recv[1] = "me" /\ c.recv[2] > k /\ c.recv[3] > k
             /\ c.a1 = Me(c.recv[2], k) /\ c.a2 = Me(k, c.recv[3])
             /\ c.fl = <<"N", "N", "mone", "pone">>
        [] OTHER -> FALSE
\* the calls of step k on a full grid, as <<step, phase, child written>>
LuExpected(k) ==
  {<<k, 0, Me(k, k)>>}
  \cup {<<k, 1, Me(k, i)>> : i \in (k + 1)..(n - 1)}
  \cup {<<k, 2, Me(i, k)>> : i \in (k + 1)..(n - 1)}
  \cup {<<k, 3, Me(i, j)>> : i \in (k + 1)..(n - 1), j \in (k + 1)..(n - 1)}
LuSig(c) == <<LuStepOf(c), LuPhaseOf(c), Written(c)>>
LuEarlier(s, t) == s[1] < t[1] \/ (s[1] = t[1] /\ s[2] < t[2])

C1_LuOrder ==
  IsLu =>
    /\ \A q \in Positions : LuShape(log[q])
    /\ \A p, q \in Positions :
         p < q => /\ ~LuEarlier(LuSig(log[q]), LuSig(log[p]))
                  /\ LuSig(log[p]) # LuSig(log[q])
    /\ FullMe =>
         \A q \in Positions : \A k \in 0..LuStepOf(log[q]) : \A e \in LuExpected(k) :
           LuEarlier(e, LuSig(log[q])) => \E p \in 1..(q - 1) : LuSig(log[p]) = e
    /\ (FullMe /\ Finished) =>
         \A k \in Rows : \A e \in LuExpected(k) : \E p \in Positions : LuSig(log[p]) = e

\* a complete block LU of a 3 x 3 grid: 14 calls
C1_Witness == IsLu /\ n = 3 /\ FullMe /\ Finished /\ Len(log) = 14

(***************************************************************************)
(* C2.  Block LU is correct in exact arithmetic: when it returns on a grid *)
(* with every child present (so every pivot was invertible), the grid      *)
(* holds U on and above the diagonal and the unit lower L below it, and    *)
(* the matrix it started from is L * U.                                    *)
(***************************************************************************)
LuL(i, k) == IF i = k THEN 1 ELSE me[<<i, k>>]
LuU(k, j) == me[<<k, j>>]
C2_LuCorrect ==
  (IsLu /\ Finished /\ FullMe) =>
    \A i \in Rows, j \in Rows :
      H0[<<i, j>>] = SumFor(0, Min(i, j), LAMBDA k : Mul(LuL(i, k), LuU(k, j)))

\* a factorisation of a 3 x 3 grid that changed the trailing blocks
C2_Witness ==
  /\ IsLu /\ n = 3 /\ Finished /\ FullMe
  /\ me[<<1, 0>>] # 0 /\ me[<<2, 1>>] # 0 /\ me[<<0, 1>>] # 0 /\ me[<<1, 2>>] # 0
  /\ me[<<2, 2>>] # H0[<<2, 2>>] /\ me[<<1, 0>>] # H0[<<1, 0>>]

(***************************************************************************)
(* C3.  Block inverse is correct in exact arithmetic: when it returns on a *)
(* grid with every child present (so every pivot was invertible when       *)
(* reached), the matrix it started from times the grid is the identity.    *)
(* On the way, a trailing update M[i,j] -= M[i,k] * M[k,j] of step k is    *)
(* issued after M[k,k] was inverted and M[k,j] was multiplied by it, and   *)
(* before the column update overwrites M[i,k].                             *)
(***************************************************************************)
IsInverse == prog = "recursiveInverseNosym"
InvTrailing(c) == c.op = "gemm" /\ c.fl = <<"N", "N", "mone", "pone">>
InvRowUpdate(c, k, j) ==
  c.op = "gemm" /\ c.recv = Me(k, j) /\ c.a1 = Me(k, k) /\ c.a2 = X
  /\ c.fl = <<"N", "N", "pone", "zero">>
InvColUpdate(c, i, k) ==
  c.op = "gemm" /\ c.recv = Me(i, k) /\ c.a1 = X /\ c.a2 = Me(k, k)
  /\ c.fl = <<"N", "N", "mone", "zero">>
C3_InverseCorrect ==
  IsInverse =>
    /\ (Finished /\ FullMe) =>
         \A i \in Rows, j \in Rows :
           SumFor(0, n - 1, LAMBDA k : Mul(H0[<<i, k>>], me[<<k, j>>]))
             = (IF i = j THEN 1 ELSE 0)
    /\ \A q \in Positions :
         InvTrailing(log[q]) =>
           LET i == log[q].recv[2]
               j == log[q].recv[3]
               k == log[q].a1[3]
           IN  /\ log[q].a1 = Me(i, k) /\ log[q].a2 = Me(k, j) /\ i # k /\ j # k
               /\ \E p0, p1 \in 1..(q - 1) :
                    /\ p0 < p1
                    /\ log[p0].op = "inverse" /\ log[p0].recv = Me(k, k)
                    /\ InvRowUpdate(log[p1], k, j)
               /\ \A p \in 1..(q - 1) : ~InvColUpdate(log[p], i, k)

\* an inversion of a 3 x 3 grid whose off-diagonal blocks are not all zero
C3_Witness ==
  /\ IsInverse /\ n = 3 /\ Finished /\ FullMe
  /\ H0[<<0, 1>>] # 0 /\ H0[<<1, 0>>] # 0 /\ H0[<<2, 0>>] # 0 /\ H0[<<1, 2>>] # 0
  /\ \E q \in Positions : InvTrailing(log[q])

(***************************************************************************)
(* C4.  Block solve-right X * U = B.  As claimed: B[k,i] is solved against *)
(* U[i,i] only after exactly one update per j < i with B[k,j] present.     *)
(* The code also skips the update when the block of U is absent, so this   *)
(* fails (C4_AsClaimed).  As amended (C4_SolveRightOrder): B[k,i] is       *)
(* solved against U[i,i] only after exactly one update for every j < i     *)
(* with B[k,j] and the block of U both present and no update for any other *)
(* j; every update reads a B[k,j] that is already solved; its U operand is *)
(* block (j,i) untransposed, or block (i,j) transposed when lowerStored,   *)
(* and then no strictly upper block of U is read; and when the routine     *)
(* returns every present B[k,i] has been solved.                           *)
(***************************************************************************)
IsSolveRight == prog = "recursiveSolveUpperTriangularRight"
UBlock(j, i) == IF lowerStored THEN Me(i, j) ELSE Me(j, i)
RightSolve(c, k, i) ==
  /\ c.op = "solveUpperTriangularRight" /\ c.recv = Me(i, i) /\ c.a1 = B(k, i)
  /\ c.fl = <<BoolStr(unitriangular), BoolStr(lowerStored)>>
RightUpdates(q, k, i, j) ==
  {p \in 1..(q - 1) : log[p].op = "gemm" /\ log[p].recv = B(k, i) /\ log[p].a1 = B(k, j)}
C4_Calls ==
  /\ \A q \in Positions :
       LET c == log[q]
       IN  /\ c.op = "solveUpperTriangularRight" =>
                c.a1[1] = "b" /\ RightSolve(c, c.a1[2], c.a1[3])
           /\ c.op = "gemm" =>
                /\ c.recv[1] = "b" /\ c.a1[1] = "b" /\ c.a1[2] = c.recv[2]
                /\ c.a1[3] < c.recv[3]
                /\ c.a2 = UBlock(c.a1[3], c.recv[3])
                /\ c.fl = <<"N", IF lowerStored THEN "T" ELSE "N", "mone", "pone">>
                /\ \E p \in 1..(q - 1) : RightSolve(log[p], c.a1[2], c.a1[3])
           /\ c.op \in {"gemm", "solveUpperTriangularRight"}
           /\ lowerStored =>
                \A r \in Operands(c) : r[1] = "me" => r[3] <= r[2]
  /\ Finished =>
       \A k \in 0..(nb - 1), i \in Rows :
         b[<<k, i>>] # NULL => \E q \in Positions : RightSolve(log[q], k, i)

C4_SolveRightOrder ==
  IsSolveRight =>
    /\ C4_Calls
    /\ \A q \in Positions :
         log[q].op = "solveUpperTriangularRight" =>
           \A j \in 0..(log[q].a1[3] - 1) :
             Cardinality(RightUpdates(q, log[q].a1[2], log[q].a1[3], j))
               = (IF /\ b[<<log[q].a1[2], j>>] # NULL
                     /\ Get(State, UBlock(j, log[q].a1[3])) # NULL
                    THEN 1 ELSE 0)

C4_AsClaimed ==
  IsSolveRight =>
    /\ C4_Calls
    /\ \A q \in Positions :
         log[q].op = "solveUpperTriangularRight" =>
           \A j \in 0..(log[q].a1[3] - 1) :
             b[<<log[q].a1[2], j>>] # NULL =>
               Cardinality(RightUpdates(q, log[q].a1[2], log[q].a1[3], j)) = 1

\* B[k,2] is solved after the update by one present B[k,j] and without the
\* update by the other present B[k,j'], whose block of U is absent
C4_Witness ==
  /\ IsSolveRight /\ Finished /\ n = 3
  /\ \E q \in Positions :
       /\ log[q].op = "solveUpperTriangularRight" /\ log[q].a1[3] = 2
       /\ \E j, jj \in 0..1 :
            /\ Cardinality(RightUpdates(q, log[q].a1[2], 2, j)) = 1
            /\ b[<<log[q].a1[2], jj>>] # NULL
            /\ RightUpdates(q, log[q].a1[2], 2, jj) = {}

(***************************************************************************)
(* C6.  Block solve-left L * X = B, L lower.  In every block column k of B *)
(* the rows are solved in increasing i; B[i,k] is solved against L[i,i]    *)
(* only after exactly one update B[i,k] -= L[i,j] * B[j,k] for every j < i *)
(* with L[i,j] and B[j,k] both present (and none for another j), every     *)
(* B[j,k] being already solved; no call names an absent child, so an       *)
(* absent B[i,k] is skipped; and when the routine returns every present    *)
(* B[i,k] has been solved.                                                 *)
(***************************************************************************)
IsSolveLowerLeft == prog = "recursiveSolveLowerTriangularLeft"
LeftSolve(c, i, k) ==
  /\ c.op = "solveLowerTriangularLeft" /\ c.recv = Me(i, i) /\ c.a1 = B(i, k)
  /\ c.fl = <<BoolStr(unitriangular)>>
LeftUpdates(q, i, k, j) ==
  {p \in 1..(q - 1) : log[p].op = "gemm" /\ log[p].recv = B(i, k) /\ log[p].a2 = B(j, k)}
C6_SolveLowerLeftOrder ==
  IsSolveLowerLeft =>
    /\ \A q \in Positions :
         LET c == log[q]
         IN  /\ c.op \in {"gemm", "solveLowerTriangularLeft"}
             /\ \A r \in Operands(c) : Get(State, r) # NULL
             /\ c.op = "gemm" =>
                  /\ c.recv[1] = "b" /\ c.a2[1] = "b" /\ c.a2[3] = c.recv[3]
                  /\ c.a2[2] < c.recv[2]
                  /\ c.a1 = Me(c.recv[2], c.a2[2])
                  /\ c.fl = <<"N", "N", "mone", "pone">>
                  /\ \E p \in 1..(q - 1) : LeftSolve(log[p], c.a2[2], c.a2[3])
             /\ c.op = "solveLowerTriangularLeft" =>
                  /\ c.a1[1] = "b" /\ LeftSolve(c, c.a1[2], c.a1[3])
                  /\ \A p \in 1..(q - 1) :
                       (log[p].op = "solveLowerTriangularLeft" /\ log[p].a1[3] = c.a1[3])
                         => log[p].a1[2] < c.a1[2]
                  /\ \A j \in 0..(c.a1[2] - 1) :
                       Cardinality(LeftUpdates(q, c.a1[2], c.a1[3], j))
                         = (IF me[<<c.a1[2], j>>] # NULL /\ b[<<j, c.a1[3]>>] # NULL
                              THEN 1 ELSE 0)
    /\ Finished =>
         \A i \in Rows, k \in 0..(nb - 1) :
           b[<<i, k>>] # NULL => \E q \in Positions : LeftSolve(log[q], i, k)

\* B[2,k] solved after two updates, in a run that skipped an absent B[i,k]
C6_Witness ==
  /\ IsSolveLowerLeft /\ Finished /\ n = 3
  /\ \E q \in Positions :
       /\ log[q].op = "solveLowerTriangularLeft" /\ log[q].a1[2] = 2
       /\ \A j \in 0..1 : Cardinality(LeftUpdates(q, 2, log[q].a1[3], j)) = 1
  /\ \E c \in DOMAIN b : b[c] = NULL

(***************************************************************************)
(* C7.  Block solve-left U * X = B, U upper.  In every block column k the  *)
(* rows are solved from i = n-1 down to 0; B[i,k] is solved against U[i,i] *)
(* only after exactly one update by every row i' > i, itself solved        *)
(* before; and the calls that follow the solve of row i are the updates    *)
(* B[j,k] -= U[j,i] * B[i,k] of every row j < i, where U[j,i] is read as   *)
(* block (i,j) transposed when lowerStored.  When the routine returns      *)
(* every B[i,k] has been solved.                                           *)
(***************************************************************************)
IsSolveUpperLeft == prog = "recursiveSolveUpperTriangularLeft"
UpperSolve(c, i, k) ==
  /\ c.op = "solveUpperTriangularLeft" /\ c.recv = Me(i, i) /\ c.a1 = B(i, k)
  /\ c.fl = <<BoolStr(unitriangular), BoolStr(lowerStored)>>
\* B[j,k] -= U[j,i] * B[i,k]
UpperUpdate(c, j, i, k) ==
  /\ c.op = "gemm" /\ c.recv = B(j, k) /\ c.a1 = UBlock(j, i) /\ c.a2 = B(i, k)
  /\ c.fl = <<IF lowerStored THEN "T" ELSE "N", "N", "mone", "pone">>
C7_SolveUpperLeftOrder ==
  IsSolveUpperLeft =>
    /\ \A q \in Positions :
         LET c == log[q]
         IN  /\ c.op \in {"gemm", "solveUpperTriangularLeft"}
             /\ c.op = "gemm" =>
                  /\ c.recv[1] = "b" /\ c.a2[1] = "b" /\ c.recv[2] < c.a2[2]
                  /\ UpperUpdate(c, c.recv[2], c.a2[2], c.recv[3])
             /\ c.op = "solveUpperTriangularLeft" =>
                  LET i == c.a1[2]
                      k == c.a1[3]
                  IN  /\ c.a1[1] = "b" /\ UpperSolve(c, i, k)
                      /\ \A p \in 1..(q - 1) :
                           (log[p].op = "solveUpperTriangularLeft" /\ log[p].a1[3] = k)
                             => log[p].a1[2] > i
                      /\ \A ii \in (i + 1)..(n - 1) :
                           /\ Cardinality({p \in 1..(q - 1) : UpperUpdate(log[p], i, ii, k)}) = 1
                           /\ \E p0, p \in 1..(q - 1) :
                                p0 < p /\ UpperSolve(log[p0], ii, k) /\ UpperUpdate(log[p], i, ii, k)
                      /\ \A t \in 1..i :
                           q + t <= Len(log) => \E j \in 0..(i - 1) : UpperUpdate(log[q + t], j, i, k)
                      /\ q + i <= Len(log) =>
                           \A j \in 0..(i - 1) : \E t \in 1..i : UpperUpdate(log[q + t], j, i, k)
                      /\ Finished => q + i <= Len(log)
    /\ Finished =>
         \A i \in Rows, k \in 0..(nb - 1) : \E q \in Positions : UpperSolve(log[q], i, k)

\* a complete solve on a 3 x 3 operand stored as a lower block triangle
C7_Witness ==
  /\ IsSolveUpperLeft /\ Finished /\ n = 3 /\ nb >= 2 /\ lowerStored
  /\ Len(log) = 6 * nb

(***************************************************************************)
(* C9.  Block LDLT and the recursive M.D.Mt update touch only the lower    *)
(* triangle of the destination: no call names a child (i,j), j > i, of     *)
(* this, and these children keep their value; a diagonal child is written  *)
(* only by its factorisation and by mdmtProduct, a strictly lower child    *)
(* only by the column solve, its scaling and mdntProduct (in the M.D.Mt    *)
(* update: only by mdmtProduct, resp. mdntProduct).                        *)
(***************************************************************************)
IsLdlt == prog = "recursiveLdltDecomposition"
IsMdmt == prog = "recursiveMdmtProduct"
C9_LowerTriangleOnly ==
  (IsLdlt \/ IsMdmt) =>
    /\ \A q \in Positions :
         LET c == log[q]
             w == Written(c)
         IN  /\ \A r \in Operands(c) : r[1] = "me" => r[3] <= r[2]
             /\ w[1] = "me"
             /\ c.op = "mdmtProduct" => w[2] = w[3]
             /\ c.op = "mdntProduct" => w[3] < w[2]
             /\ w[2] = w[3] =>
                  c.op \in (IF IsLdlt THEN {"ldltDecomposition", "mdmtProduct"}
                                      ELSE {"mdmtProduct"})
             /\ w[3] < w[2] =>
                  c.op \in (IF IsLdlt
                              THEN {"solveUpperTriangularRight", "multiplyWithDiag",
                                    "mdntProduct"}
                              ELSE {"mdntProduct"})
    /\ \A i \in Rows, j \in Rows : i < j => me[<<i, j>>] = H0[<<i, j>>]

\* a complete block LDLT of a 3 x 3 grid whose upper children exist
C9_Witness ==
  /\ IsLdlt /\ Finished /\ n = 3 /\ FullMe
  /\ \E q \in Positions : log[q].op = "mdmtProduct"
  /\ \E q \in Positions : log[q].op = "mdntProduct"

(***************************************************************************)
(* C10.  Block LLT.  Every update is H[i,j] -= L[i,k] * L[j,k]^T with      *)
(* k < j <= i, issued as gemm('N','T'), at most once, and only after       *)
(* L[i,k] and L[j,k] were produced by the column solve of step k against   *)
(* the factorised L[k,k] (solve-right, non unit, lowerStored); when the    *)
(* routine returns every child (i,j), k < j <= i, has received the update  *)
(* of every step k; no call names a child (i,j), j > i, and these children *)
(* keep their value.                                                       *)
(***************************************************************************)
IsLlt == prog = "recursiveLltDecomposition"
LltSolve(c, i, k) ==
  /\ c.op = "solveUpperTriangularRight" /\ c.recv = Me(k, k) /\ c.a1 = Me(i, k)
  /\ c.fl = <<"false", "true">>
LltUpdate(c, i, j, k) ==
  /\ c.op = "gemm" /\ c.recv = Me(i, j) /\ c.a1 = Me(i, k) /\ c.a2 = Me(j, k)
  /\ c.fl = <<"N", "T", "mone", "pone">>
C10_LltOrder ==
  IsLlt =>
    /\ \A q \in Positions :
         LET c == log[q]
         IN  /\ c.op \in {"lltDecomposition", "solveUpperTriangularRight", "gemm"}
             /\ \A r \in Operands(c) : r[1] = "me" /\ r[3] <= r[2]
             /\ c.op = "lltDecomposition" => c.recv[2] = c.recv[3]
             /\ c.op = "solveUpperTriangularRight" =>
                  /\ c.a1[2] > c.a1[3] /\ LltSolve(c, c.a1[2], c.a1[3])
                  /\ \E p \in 1..(q - 1) :
                       log[p].op = "lltDecomposition" /\ log[p].recv = c.recv
             /\ c.op = "gemm" =>
                  LET i == c.recv[2]
                      j == c.recv[3]
                      k == c.a1[3]
                  IN  /\ k < j /\ j <= i /\ LltUpdate(c, i, j, k)
                      /\ \E p \in 1..(q - 1) : LltSolve(log[p], i, k)
                      /\ \E p \in 1..(q - 1) : LltSolve(log[p], j, k)
                      /\ \A p \in 1..(q - 1) : ~LltUpdate(log[p], i, j, k)
    /\ Finished =>
         \A k \in Rows, i \in Rows, j \in Rows :
           (k < j /\ j <= i) => \E q \in Positions : LltUpdate(log[q], i, j, k)
    /\ \A i \in Rows, j \in Rows : i < j => me[<<i, j>>] = H0[<<i, j>>]

\* a complete block LLT of a 3 x 3 grid: 10 calls
C10_Witness == IsLlt /\ Finished /\ n = 3 /\ Len(log) = 10

(***************************************************************************)
(* C5.  In the block solves the block rows (solve-right) and block columns *)
(* (solve-left, lower and upper) of B are independent: a statement of the  *)
(* iteration k names only children of B in row (column) k and children of  *)
(* the triangular operand, and writes only the former; the triangular      *)
(* operand keeps its value; and a run that interleaves the iterations in   *)
(* any order returns with the same B as the sequential loop.               *)
(***************************************************************************)
LineOf(r) == IF IsSolveRight THEN r[2] ELSE r[3]
C5_SolveLinesIndependent ==
  prog \in Solves =>
    /\ \A q \in done :
         LET c == program[q]
         IN  Guarded(State, c) =>
               /\ Written(c)[1] = "b"
               /\ \A r \in Operands(c) :
                    \/ r[1] = "me"
                    \/ r[1] = "b" /\ LineOf(r) = c.at[1]
    /\ me = H0
    /\ Finished => (SeqResult.status = "done" /\ b = SeqResult.b)

\* a reordered solve of two block rows (columns) against a 3 x 3 operand
C5_Witness ==
  /\ prog \in Solves /\ Finished /\ reordered /\ n = 3 /\ nb = 2 /\ ~unitriangular
  /\ \A k \in 0..1 : \E c \in DOMAIN b : LineOf(<<"b", c[1], c[2]>>) = k /\ b[c] # B0[c]

(***************************************************************************)
(* C8.  Inside a phase of a step k of block LU the calls are independent:  *)
(* a row solve names only H[k,k] and the H[k,i] it writes, a column solve  *)
(* only H[k,k] and the H[i,k] it writes, a trailing update only H[i,k],    *)
(* H[k,j] and the H[i,j], i,j > k, it writes; no call writes a child that  *)
(* another call of the same phase names; and a run that takes the calls of *)
(* each phase in any order returns with the same grid as the sequential    *)
(* loop.                                                                   *)
(***************************************************************************)
C8_LuPhasesIndependent ==
  IsLu =>
    /\ \A q \in done :
         LET c == program[q]
         IN  /\ LuShape(c)
             /\ Operands(c) = (CASE c.op = "gemm" -> {c.recv, c.a1, c.a2}
                                 [] OTHER -> {Me(LuStepOf(c), LuStepOf(c)), Written(c)})
    /\ \A p, q \in done :
         (/\ p # q /\ SegOf(program[p]) = SegOf(program[q])
          /\ Guarded(State, program[p]) /\ Guarded(State, program[q]))
           => Written(program[p]) \notin Operands(program[q])
    /\ Finished => (SeqResult.status = "done" /\ me = SeqResult.me)

\* a reordered block LU of a 3 x 3 grid with every child present
C8_Witness ==
  /\ IsLu /\ Finished /\ reordered /\ n = 3 /\ FullMe
  /\ me[<<1, 1>>] # H0[<<1, 1>>] /\ me[<<2, 1>>] # H0[<<2, 1>>]

(***************************************************************************)
(* The call issued last names an absent child, as its receiver or as an    *)
(* argument.                                                               *)
(***************************************************************************)
LastCallOnAbsent == log # <<>> /\ NullUse(State, log[Len(log)])

(***************************************************************************)
(* C13.  Block LU applies its operations to present children only: for     *)
(* every presence pattern of the grid, no call of recursiveLuDecomposition *)
(* has an absent child as its receiver or as an operand.                   *)
(* The code contradicts it: the factorisation of H[k,k] is called without  *)
(* a test, while the solves that follow test H[k,k].                       *)
(***************************************************************************)
C13_LuOnlyPresent == IsLu => ~LastCallOnAbsent

(***************************************************************************)
(* C14.  In block LLT, block LDLT, block inverse and the upper block       *)
(* solve-left an absent off-diagonal child is a no-op: no call has an      *)
(* absent child as its receiver or as an operand.                          *)
(* The code contradicts it: these routines test no child.                  *)
(***************************************************************************)
C14_AbsentIsNoOp ==
  (IsLlt \/ IsLdlt \/ IsInverse \/ (IsSolveUpperLeft /\ \A c \in DOMAIN B0 : B0[c] # NULL))
    => ~LastCallOnAbsent

(***************************************************************************)
(* C15.  The recursive M.D.tM update subtracts each term once: when it     *)
(* returns, every child (i,j), j <= i, of the destination holds its        *)
(* initial value minus the sum over the column blocks k of M of            *)
(* M[i,k].D[k].tM[j,k]; with a leaf d, M has the single column block 0.    *)
(* The code contradicts it: with a leaf d the one term is subtracted once  *)
(* per row child of the destination.                                       *)
(***************************************************************************)
MdmtTerm(i, j, k) ==
  Mul(Mul(m[<<i, k>>], IF dIsLeaf THEN d[-1] ELSE d[k]), m[<<j, k>>])
C15_MdmtOnce ==
  (IsMdmt /\ Finished) =>
    \A i \in Rows : \A j \in 0..i :
      me[<<i, j>>] = Sub(H0[<<i, j>>],
                         SumFor(0, IF dIsLeaf THEN 0 ELSE n - 1,
                                LAMBDA k : MdmtTerm(i, j, k)))

(***************************************************************************)
(* C16.  In block inverse no product aliases its destination: the          *)
(* destination of every gemm differs from both of its inputs; a product    *)
(* that overwrites its destination (beta = 0: the row update               *)
(* M[k,j] <- M[k,k]^-1 M[k,j] and the column update M[i,k] <- -M[i,k]      *)
(* M[k,k]^-1) reads the temporary, which was copied from the destination   *)
(* by the call just before and holds its old value.                        *)
(***************************************************************************)
Overwrites(c) == c.op = "gemm" /\ c.fl[4] = "zero"
C16_NoAliasedProduct ==
  IsInverse =>
    /\ \A q \in Positions :
         log[q].op = "gemm" =>
           /\ log[q].recv \notin {log[q].a1, log[q].a2}
           /\ Overwrites(log[q]) =>
                /\ X \in {log[q].a1, log[q].a2}
                /\ q > 1 /\ log[q - 1].op = "copy" /\ log[q - 1].recv = log[q].recv
    /\ (log # <<>> /\ status = "run" /\ log[Len(log)].op = "copy")
         => (x # NULL /\ x = Get(State, log[Len(log)].recv))
    /\ (log # <<>> /\ status = "run" /\ Overwrites(log[Len(log)]))
         => LET c == log[Len(log)]
            IN  Get(State, c.recv) =
                  Mul(Scalar(c.fl[3]), Mul(Get(State, c.a1), Get(State, c.a2)))

\* a row update has just overwritten its destination; the temporary keeps the old value
C16_Witness ==
  /\ IsInverse /\ n = 3 /\ status = "run" /\ log # <<>>
  /\ Overwrites(log[Len(log)]) /\ log[Len(log)].a2 = X
  /\ x # NULL /\ x # 0 /\ x # Get(State, log[Len(log)].recv)

(***************************************************************************)
(* C17.  The temporaries of block inverse are scoped: at most one is live  *)
(* at any time; a copy is made only when none is live; every temporary is  *)
(* destroyed once, by the second call after its copy, in the same step;    *)
(* none is live when a step ends nor when the routine returns.             *)
(***************************************************************************)
TempLive(q) ==
  Cardinality({p \in 1..q : log[p].op = "copy"})
    - Cardinality({p \in 1..q : log[p].op = "destroy"})
C17_TemporariesScoped ==
  IsInverse =>
    /\ \A q \in Positions :
         /\ TempLive(q) \in {0, 1}
         /\ log[q].op = "copy" => TempLive(q - 1) = 0
         /\ log[q].op = "destroy" =>
              /\ TempLive(q - 1) = 1
              /\ q > 2 /\ log[q - 2].op = "copy" /\ log[q - 2].at[1] = log[q].at[1]
         /\ (q < Len(log) /\ log[q + 1].at[1] # log[q].at[1]) => TempLive(q) = 0
    /\ (status = "run" \/ Finished) => ((x # NULL) <=> (TempLive(Len(log)) = 1))
    /\ Finished => (TempLive(Len(log)) = 0 /\ x = NULL)

\* a complete inverse of a 3 x 3 grid: twelve temporaries made and destroyed
C17_Witness ==
  /\ IsInverse /\ n = 3 /\ Finished
  /\ Cardinality({p \in Positions : log[p].op = "copy"}) = 12
  /\ Cardinality({p \in Positions : log[p].op = "destroy"}) = 12

(***************************************************************************)
(* The tall-skinny admissibility condition (admissibility.hpp).  A ratio   *)
(* is a fraction <<numerator, denominator>>.  The condition answers, for   *)
(* each of the two clusters, whether its size is ratio times smaller than  *)
(* the other's; the header does not say whether a size exactly ratio times *)
(* smaller counts, so the comparison is strict or not, fixed per build.    *)
(***************************************************************************)
Ratios == {<<1, 1>>, <<3, 2>>, <<2, 1>>, <<3, 1>>}
DefaultRatio == <<2, 1>>

\* size a is ratio times smaller than size c
TimesSmaller(a, c, ratio, strict) ==
  IF strict THEN ratio[1] * a < ratio[2] * c ELSE ratio[1] * a <= ratio[2] * c

\* Faulty variant: a cluster is admissible when it is not ratio times larger
IsRowsColsAdmissibleNotLarger(rows, cols, ratio, strict) ==
  <<ratio[2] * rows <= ratio[1] * cols, ratio[2] * cols <= ratio[1] * rows>>

isRowsColsAdmissible(rows, cols, ratio, strict) ==
  <<TimesSmaller(rows, cols, ratio, strict), TimesSmaller(cols, rows, ratio, strict)>>

InitAdm ==
  /\ NoRun /\ arr = Idle /\ api = Idle
  /\ \E r \in 0..MaxClusterSize, c \in 0..MaxClusterSize, ratio \in Ratios, strict \in BOOLEAN :
       adm = [phase |-> "call", rows |-> r, cols |-> c, ratio |-> ratio, strict |-> strict,
              rowAdmissible |-> FALSE, colAdmissible |-> FALSE,
              admissible |-> FALSE, splitRows |-> FALSE, splitCols |-> FALSE]

\* the call returns the pair
IsRowsColsAdmissible ==
  /\ adm.phase = "call"
  /\ LET res == isRowsColsAdmissible(adm.rows, adm.cols, adm.ratio, adm.strict)
     IN  adm' = [adm EXCEPT !.phase = "returned",
                            !.rowAdmissible = res[1], !.colAdmissible = res[2]]
  /\ UNCHANGED <<blocks, arr, api>>

\* the use of the pair: a row-admissible (col-admissible) block is not
\* subdivided along the rows (columns); both: admissible as in isAdmissible()
Subdivide ==
  /\ adm.phase = "returned"
  /\ adm' = [adm EXCEPT !.phase = "built",
                        !.admissible = adm.rowAdmissible /\ adm.colAdmissible,
                        !.splitRows = ~adm.rowAdmissible,
                        !.splitCols = ~adm.colAdmissible]
  /\ UNCHANGED <<blocks, arr, api>>

NextAdm == IsRowsColsAdmissible \/ Subdivide

SpecAdm == InitAdm /\ [][NextAdm]_vars

(***************************************************************************)
(* C12.  As claimed: rowAdmissible iff |R| <= ratio * |C| and              *)
(* colAdmissible iff |C| <= ratio * |R|; both true: admissible; exactly    *)
(* one true: only the other axis is subdivided.  The header documents the  *)
(* opposite comparison (a cluster is admissible when its size is ratio     *)
(* times smaller than the other's), so this fails (C12_AsClaimed).         *)
(* As amended (C12_TallSkinny): rowAdmissible if ratio * |R| < |C| and not *)
(* if ratio * |R| > |C|; colAdmissible if ratio * |C| < |R| and not if     *)
(* ratio * |C| > |R|; both true: admissible; exactly one true: only the    *)
(* other axis is subdivided.                                               *)
(***************************************************************************)
AdmReturned == adm.phase \in {"returned", "built"}
AdmUse ==
  adm.phase = "built" =>
    /\ (adm.rowAdmissible /\ adm.colAdmissible)
         => (adm.admissible /\ ~adm.splitRows /\ ~adm.splitCols)
    /\ (adm.rowAdmissible /\ ~adm.colAdmissible)
         => (~adm.admissible /\ ~adm.splitRows /\ adm.splitCols)
    /\ (~adm.rowAdmissible /\ adm.colAdmissible)
         => (~adm.admissible /\ adm.splitRows /\ ~adm.splitCols)
CCompress == {"hmat_compress_svd", "hmat_compress_aca_full", "hmat_compress_aca_partial",
              "hmat_compress_aca_plus", "hmat_compress_rk_null"}
CCluster == {"hmat_cluster_geometric", "hmat_cluster_median", "hmat_cluster_hybrid"}
\* a value of the C enumeration type outside its enumerators
Unrecognised == "unrecognised"
CxxCompress == {"Svd", "AcaFull", "AcaPartial", "AcaPlus", "RkNull"}
CxxCluster == {"kGeometric", "kMedian", "kHybrid"}

\* the fields both functions copy as they are
PlainFields == {"assemblyEpsilon", "recompressionEpsilon", "compressionMinLeafSize",
                "maxLeafSize", "maxParallelLeaves", "elementsPerBlock", "useLu", "useLdlt",
                "coarsening", "recompress", "validateCompression",
                "validationErrorThreshold", "validationReRun", "validationDump"}

\* HMatSettings::setParameters and printSettings leave the settings as they are
setParameters(cxx) == cxx

\* Faulty variant: aca_partial and aca_plus exchanged on the way out
HmatGetSwapsAca(cxx) ==
  [assemblyEpsilon |-> cxx.assemblyEpsilon,
   recompressionEpsilon |-> cxx.recompressionEpsilon,
   compressionMethod |->
     CASE cxx.compressionMethod = "Svd" -> "hmat_compress_svd"
       [] cxx.compressionMethod = "AcaFull" -> "hmat_compress_aca_full"
       [] cxx.compressionMethod = "AcaPartial" -> "hmat_compress_aca_plus"
       [] cxx.compressionMethod = "AcaPlus" -> "hmat_compress_aca_partial"
       [] cxx.compressionMethod = "RkNull" -> "hmat_compress_rk_null"
       [] OTHER -> "hmat_compress_svd",
   admissibilityCondition |-> cxx.admissibilityCondition,
   admissibilityFactor |-> 0,
   clustering |->
     CASE cxx.clustering = "kGeometric" -> "hmat_cluster_geometric"
       [] cxx.clustering = "kMedian" -> "hmat_cluster_median"
       [] cxx.clustering = "kHybrid" -> "hmat_cluster_hybrid"
       [] OTHER -> "hmat_cluster_median",
   compressionMinLeafSize |-> cxx.compressionMinLeafSize,
   maxLeafSize |-> cxx.maxLeafSize,
   maxParallelLeaves |-> cxx.maxParallelLeaves,
   elementsPerBlock |-> cxx.elementsPerBlock,
   useLu |-> cxx.useLu,
   useLdlt |-> cxx.useLdlt,
   coarsening |-> cxx.coarsening,
   recompress |-> cxx.recompress,
   validateCompression |-> cxx.validateCompression,
   validationErrorThreshold |-> cxx.validationErrorThreshold,
   validationReRun |-> cxx.validationReRun,
   validationDump |-> cxx.validationDump]

\* the value hmat_get_parameters writes into *settings
hmat_get_parameters(cxx) ==
  [assemblyEpsilon |-> cxx.assemblyEpsilon,
   recompressionEpsilon |-> cxx.recompressionEpsilon,
   compressionMethod |->
     CASE cxx.compressionMethod = "Svd" -> "hmat_compress_svd"
       [] cxx.compressionMethod = "AcaFull" -> "hmat_compress_aca_full"
       [] cxx.compressionMethod = "AcaPartial" -> "hmat_compress_aca_partial"
       [] cxx.compressionMethod = "AcaPlus" -> "hmat_compress_aca_plus"
       [] cxx.compressionMethod = "RkNull" -> "hmat_compress_rk_null"
       [] OTHER -> "hmat_compress_svd",
   admissibilityCondition |-> cxx.admissibilityCondition,
   admissibilityFactor |-> 0,
   clustering |->
     CASE cxx.clustering = "kGeometric" -> "hmat_cluster_geometric"
       [] cxx.clustering = "kMedian" -> "hmat_cluster_median"
       [] cxx.clustering = "kHybrid" -> "hmat_cluster_hybrid"
       [] OTHER -> "hmat_cluster_median",
   compressionMinLeafSize |-> cxx.compressionMinLeafSize,
   maxLeafSize |-> cxx.maxLeafSize,
   maxParallelLeaves |-> cxx.maxParallelLeaves,
   elementsPerBlock |-> cxx.elementsPerBlock,
   useLu |-> cxx.useLu,
   useLdlt |-> cxx.useLdlt,
   coarsening |-> cxx.coarsening,
   recompress |-> cxx.recompress,
   validateCompression |-> cxx.validateCompression,
   validationErrorThreshold |-> cxx.validationErrorThreshold,
   validationReRun |-> cxx.validationReRun,
   validationDump |-> cxx.validationDump]

\* the settings hmat_set_parameters leaves in the singleton; fresh numbers the
\* object a new-expression creates
SetSettings(cxx, st, fresh) ==
  [assemblyEpsilon |-> st.assemblyEpsilon,
   recompressionEpsilon |-> st.recompressionEpsilon,
   compressionMethod |->
     CASE st.compressionMethod = "hmat_compress_svd" -> "Svd"
       [] st.compressionMethod = "hmat_compress_aca_full" -> "AcaFull"
       [] st.compressionMethod = "hmat_compress_aca_partial" -> "AcaPartial"
       [] st.compressionMethod = "hmat_compress_aca_plus" -> "AcaPlus"
       [] st.compressionMethod = "hmat_compress_rk_null" -> "RkNull"
       [] OTHER -> cxx.compressionMethod,
   compressionMinLeafSize |-> st.compressionMinLeafSize,
   admissibilityCondition |->
     IF st.admissibilityFactor # 0
       THEN <<"StandardAdmissibilityCondition", st.admissibilityFactor, fresh>>
       ELSE st.admissibilityCondition,
   clustering |->
     CASE st.clustering = "hmat_cluster_geometric" -> "kGeometric"
       [] st.clustering = "hmat_cluster_median" -> "kMedian"
       [] st.clustering = "hmat_cluster_hybrid" -> "kHybrid"
       [] OTHER -> cxx.clustering,
   maxLeafSize |-> st.maxLeafSize,
   maxParallelLeaves |-> st.maxParallelLeaves,
   elementsPerBlock |-> st.elementsPerBlock,
   useLu |-> st.useLu,
   useLdlt |-> st.useLdlt,
   coarsening |-> st.coarsening,
   recompress |-> st.recompress,
   validateCompression |-> st.validateCompression,
   validationErrorThreshold |-> st.validationErrorThreshold,
   validationReRun |-> st.validationReRun,
   validationDump |-> st.validationDump]

\* Faulty variant: an unrecognised value makes the function return at once,
\* before the fields that follow in the code are stored
HmatSetReturnsOnInvalid(cxx, st, fresh) ==
  LET all == SetSettings(cxx, st, fresh)
      early == [cxx EXCEPT !.assemblyEpsilon = st.assemblyEpsilon,
                           !.recompressionEpsilon = st.recompressionEpsilon]
      mid == [early EXCEPT !.compressionMethod = all.compressionMethod,
                           !.compressionMinLeafSize = st.compressionMinLeafSize,
                           !.admissibilityCondition = all.admissibilityCondition]
  IN  IF st.compressionMethod \notin CCompress THEN [cxx |-> early, rc |-> 1]
      ELSE IF st.clustering \notin CCluster THEN [cxx |-> mid, rc |-> 1]
      ELSE [cxx |-> all, rc |-> 0]

\* hmat_set_parameters: the singleton after the call and the value returned
hmat_set_parameters(cxx, st, fresh) ==
  [cxx |-> setParameters(SetSettings(cxx, st, fresh)),
   rc |-> LET rc0 == 0
              rc1 == IF st.compressionMethod \in CCompress THEN rc0 ELSE 1
          IN  IF st.clustering \in CCluster THEN rc1 ELSE 1]

\* sample number sd of the values of the plain fields
PlainSample(sd) ==
  [assemblyEpsilon |-> Rnd(sd, 1) % 3,
   recompressionEpsilon |-> Rnd(sd, 2) % 3,
   compressionMinLeafSize |-> Rnd(sd, 3) % 3,
   maxLeafSize |-> Rnd(sd, 4) % 3,
   maxParallelLeaves |-> Rnd(sd, 5) % 3,
   elementsPerBlock |-> Rnd(sd, 6) % 3,
   useLu |-> Rnd(sd, 7) % 2 = 1,
   useLdlt |-> Rnd(sd, 8) % 2 = 1,
   coarsening |-> Rnd(sd, 9) % 2 = 1,
   recompress |-> Rnd(sd, 10) % 2 = 1,
   validateCompression |-> Rnd(sd, 11) % 2 = 1,
   validationErrorThreshold |-> Rnd(sd, 12) % 3,
   validationReRun |-> Rnd(sd, 13) % 2 = 1,
   validationDump |-> Rnd(sd, 14) % 2 = 1]

\* a settings value: the plain fields of sample sd and the four other fields
Settings(sd, method, clustering, factor, cond) ==
  [f \in PlainFields \cup {"compressionMethod", "clustering", "admissibilityFactor",
                           "admissibilityCondition"} |->
     CASE f = "compressionMethod" -> method
       [] f = "clustering" -> clustering
       [] f = "admissibilityFactor" -> factor
       [] f = "admissibilityCondition" -> cond
       [] OTHER -> PlainSample(sd)[f]]

\* pointers: the null pointer, a condition the caller created, the default one
NullCondition == <<"NULL", 0, 0>>
CallerCondition == <<"hmat_create_admissibility_standard", 3, 0>>
DefaultCondition == <<"DEFAULT_ADMISSIBLITY", 0, 0>>
\* admissibilityFactor: 0.0 or not
Factors == {0, 2}

\* the values a caller passes to hmat_set_parameters
SettingsInputs ==
  {Settings(sd, cm, cl, fa, co) :
     sd \in 0..MaxSettingsSeed, cm \in CCompress \cup {Unrecognised},
     cl \in CCluster \cup {Unrecognised}, fa \in Factors,
     co \in {NullCondition, CallerCondition}}

\* the number of an object that differs from the condition installed
FreshId(cxx) ==
  IF cxx.admissibilityCondition[1] = "StandardAdmissibilityCondition"
    THEN 1 - cxx.admissibilityCondition[3] ELSE 0

InitApi ==
  /\ NoRun /\ adm = Idle /\ arr = Idle
  /\ \E cm \in {"Svd", "AcaPlus"}, cl \in {"kMedian", "kHybrid"} :
       api = [cxx |-> Settings(0, cm, cl, 0, DefaultCondition),
              c |-> Settings(0, Unrecognised, Unrecognised, 0, NullCondition),
              rc |-> 0, lastOp |-> "none", wasSet |-> FALSE,
              lastSet |-> Settings(0, Unrecognised, Unrecognised, 0, NullCondition),
              prevMethod |-> cm, prevClustering |-> cl]

HmatSetParameters ==
  /\ \E st \in SettingsInputs :
       LET r == hmat_set_parameters(api.cxx, st, FreshId(api.cxx))
       IN  api' = [api EXCEPT !.cxx = r.cxx, !.rc = r.rc, !.c = st,
                              !.lastOp = "set", !.wasSet = TRUE, !.lastSet = st,
                              !.prevMethod = api.cxx.compressionMethod,
                              !.prevClustering = api.cxx.clustering]
  /\ UNCHANGED <<blocks, adm, arr>>

HmatGetParameters ==
  /\ api' = [api EXCEPT !.c = hmat_get_parameters(api.cxx), !.lastOp = "get"]
  /\ UNCHANGED <<blocks, adm, arr>>

NextApi == HmatSetParameters \/ HmatGetParameters

SpecApi == InitApi /\ [][NextApi]_vars

(***************************************************************************)
(* C18.  The settings round-trip: when hmat_get_parameters follows a       *)
(* hmat_set_parameters whose compressionMethod and clustering are          *)
(* recognised, it returns the value that was set in every field but two:   *)
(* admissibilityFactor reads 0.0 and admissibilityCondition is the         *)
(* condition installed (the caller's for a factor 0.0, else the new        *)
(* StandardAdmissibilityCondition of that factor).                         *)
(***************************************************************************)
Recognised(st) == st.compressionMethod \in CCompress /\ st.clustering \in CCluster
MethodPairs == {<<"hmat_compress_svd", "Svd">>, <<"hmat_compress_aca_full", "AcaFull">>,
                <<"hmat_compress_aca_partial", "AcaPartial">>,
                <<"hmat_compress_aca_plus", "AcaPlus">>,
                <<"hmat_compress_rk_null", "RkNull">>}
ClusterPairs == {<<"hmat_cluster_geometric", "kGeometric">>,
                 <<"hmat_cluster_median", "kMedian">>, <<"hmat_cluster_hybrid", "kHybrid">>}
C19_SetReturnCode ==
  api # Idle =>
    /\ api.lastOp = "set" =>
         /\ api.rc \in {0, 1}
         /\ api.rc = 1 <=> ~Recognised(api.lastSet)
         /\ IF api.lastSet.compressionMethod \in CCompress
              THEN <<api.lastSet.compressionMethod, api.cxx.compressionMethod>> \in MethodPairs
              ELSE api.cxx.compressionMethod = api.prevMethod
         /\ IF api.lastSet.clustering \in CCluster
              THEN <<api.lastSet.clustering, api.cxx.clustering>> \in ClusterPairs
              ELSE api.cxx.clustering = api.prevClustering
         /\ \A f \in PlainFields : api.cxx[f] = api.lastSet[f]
         /\ api.lastSet.admissibilityFactor = 0
              => api.cxx.admissibilityCondition = api.lastSet.admissibilityCondition
    /\ api.lastOp = "get" =>
         (api.c.compressionMethod \in CCompress /\ api.c.clustering \in CCluster)

\* a set with an unrecognised compressionMethod: 1 is returned, the method
\* stays, the clustering and the other fields are stored
C19_Witness ==
  /\ api # Idle /\ api.lastOp = "set" /\ api.rc = 1
  /\ api.lastSet.compressionMethod = Unrecognised
  /\ api.lastSet.clustering = "hmat_cluster_geometric"
  /\ api.cxx.compressionMethod = api.prevMethod
  /\ api.cxx.clustering = "kGeometric" /\ api.prevClustering # "kGeometric"
  /\ api.cxx.maxLeafSize # 0

(***************************************************************************)
(* ScalarArray (scalar_array.hpp).  An int is a number of 0 .. 2^31 - 1    *)
(* (the arguments are not negative); a size_t, and the distance of a       *)
(* pointer from the start of the lender's storage, in elements, is a       *)
(* 64-bit number, written as its eight bytes, lowest first.                *)
(***************************************************************************)
IntBytes == 4
SizeBytes == 8
Byte == 256

\* an int as a 64-bit number
ToSize(a) ==
  [t \in 1..SizeBytes |->
     IF t = 1 THEN a % Byte
     ELSE IF t = 2 THEN (a \div Byte) % Byte
     ELSE IF t = 3 THEN (a \div (Byte * Byte)) % Byte
     ELSE IF t = 4 THEN a \div (Byte * Byte * Byte)
     ELSE 0]

\* u + v modulo 2^64
SizeAdd(u, v) ==
  LET carry[t \in 0..SizeBytes] ==
        IF t = 0 THEN 0 ELSE (u[t] + v[t] + carry[t - 1]) \div Byte
  IN  [t \in 1..SizeBytes |-> (u[t] + v[t] + carry[t - 1]) % Byte]

\* the product of two ints as a 64-bit number (it is below 2^62)
SizeMul(a, c) ==
  LET u == ToSize(a)
      v == ToSize(c)
      col(t) == LET f[i \in 0..IntBytes] ==
                      IF i = 0 THEN 0
                      ELSE f[i - 1] + (IF t + 1 - i \in 1..IntBytes
                                         THEN u[i] * v[t + 1 - i] ELSE 0)
                IN  f[IntBytes]
      carry[t \in 0..SizeBytes] ==
        IF t = 0 THEN 0 ELSE (col(t) + carry[t - 1]) \div Byte
  IN  [t \in 1..SizeBytes |-> (col(t) + carry[t - 1]) % Byte]

\* a 64-bit number is a value of int
FitsInt(u) == u[IntBytes] < Byte \div 2 /\ \A t \in (IntBytes + 1)..SizeBytes : u[t] = 0

\* the low 32 bits of u as an int, converted to a pointer distance (sign extended)
WrapInt(u) ==
  [t \in 1..SizeBytes |->
     IF t <= IntBytes THEN u[t]
     ELSE IF u[IntBytes] >= Byte \div 2 THEN Byte - 1 ELSE 0]

\* a * c computed in int: the product when it is a value of int; otherwise
\* the behaviour is undefined, and a build yields the wrapped product or,
\* where it widens the operands, the full one
IntMul(a, c) ==
  IF FitsInt(SizeMul(a, c)) THEN {SizeMul(a, c)}
  ELSE {WrapInt(SizeMul(a, c)), SizeMul(a, c)}

\* get(i, j), ptr(i, j): m[i + ((size_t) lda) * j]
GetOffset(a, i, j) == SizeAdd(ToSize(i), SizeMul(a.lda, j))

\* the storage cell of element (i, j) of array a
Cell(a, i, j) == SizeAdd(a.m, GetOffset(a, i, j))

\* ScalarArray(T* _m, int _rows, int _cols, int _lda): wraps existing data
WrapData(m0, rows, cols, lda, from, ro, co, kind) ==
  [ownsMemory |-> FALSE, m |-> m0, rows |-> rows, cols |-> cols, lda |-> lda,
   live |-> TRUE, from |-> from, rowsOffset |-> ro, colsOffset |-> co, kind |-> kind]

\* ScalarArray(const ScalarArray& d)
CopyConstructor(lender, from) ==
  [ownsMemory |-> FALSE, m |-> lender.m, rows |-> lender.rows, cols |-> lender.cols, lda |-> lender.lda,
   live |-> TRUE, from |-> from, rowsOffset |-> 0, colsOffset |-> 0, kind |-> "copy"]

\* ScalarArray(lender, rowsOffset, rowsSize, colsOffset, colsSize): the arrays the
\* builds can produce, from the pointer lender.m + rowsOffset + colsOffset * lender.lda
SubArrayConstructor(lender, from, rowsOffset, rowsSize, colsOffset, colsSize) ==
  {WrapData(SizeAdd(SizeAdd(lender.m, ToSize(rowsOffset)), prod), rowsSize, colsSize, lender.lda,
            from, rowsOffset, colsOffset, "sub") : prod \in IntMul(colsOffset, lender.lda)}

\* Vector(lender, col): the pointer is lender.m + col * lender.lda
ColumnConstructor(lender, from, col) ==
  {WrapData(SizeAdd(lender.m, prod), lender.rows, 1, lender.lda, from, 0, col, "column") :
     prod \in IntMul(col, lender.lda)}

\* the lenders: <<rows, cols, lda>>, small ones and ones of more than 2^31 elements
Shapes == {<<2, 2, 2>>, <<2, 3, 3>>, <<65536, 65537, 65536>>, <<46341, 46342, 46341>>}

\* the lender: ScalarArray(rows, cols) owns its storage, of leading dimension
\* rows; ScalarArray(m, rows, cols, lda) wraps the caller's
Lender(shape) ==
  [ownsMemory |-> shape[3] = shape[1], m |-> ToSize(0),
   rows |-> shape[1], cols |-> shape[2], lda |-> shape[3],
   live |-> TRUE, from |-> 0, rowsOffset |-> 0, colsOffset |-> 0, kind |-> "lender"]

\* first and last index below size
Ends(size) == {0, size - 1}

InitArr ==
  /\ NoRun /\ adm = Idle /\ api = Idle
  /\ \E shape \in Shapes :
       arr = [arrays |-> <<Lender(shape)>>, mem |-> <<>>, freed |-> FALSE, writes |-> 0]

\* the live arrays a view can be built from
Lenders == {p \in 1..Len(arr.arrays) : arr.arrays[p].live}
CanBuild == arr # Idle /\ ~arr.freed /\ Len(arr.arrays) <= MaxViews

Built(a) == arr' = [arr EXCEPT !.arrays = Append(@, a)]

CopyView ==
  /\ CanBuild
  /\ \E p \in Lenders : Built(CopyConstructor(arr.arrays[p], p))
  /\ UNCHANGED <<blocks, adm, api>>

SubArrayView ==
  /\ CanBuild
  /\ \E p \in Lenders :
       \E ro \in Ends(arr.arrays[p].rows), co \in Ends(arr.arrays[p].cols) :
         \E a \in SubArrayConstructor(arr.arrays[p], p, ro, arr.arrays[p].rows - ro,
                                      co, arr.arrays[p].cols - co) :
           Built(a)
  /\ UNCHANGED <<blocks, adm, api>>

ColumnView ==
  /\ CanBuild
  /\ \E p \in Lenders :
       \E col \in Ends(arr.arrays[p].cols) :
         \E a \in ColumnConstructor(arr.arrays[p], p, col) : Built(a)
  /\ UNCHANGED <<blocks, adm, api>>

\* get(i, j) = v through array p
SetElement ==
  /\ arr # Idle /\ ~arr.freed /\ arr.writes < MaxWrites
  /\ \E p \in Lenders :
       \E i \in Ends(arr.arrays[p].rows), j \in Ends(arr.arrays[p].cols) :
         LET cell == Cell(arr.arrays[p], i, j)
         IN  arr' = [arr EXCEPT
                       !.mem = [c \in DOMAIN arr.mem \cup {cell} |->
                                  IF c = cell THEN p ELSE arr.mem[c]],
                       !.writes = @ + 1]
  /\ UNCHANGED <<blocks, adm, api>>

\* ~ScalarArray: the storage is freed if the array owns it
Destructor ==
  /\ arr # Idle
  /\ \E p \in Lenders :
       arr' = [arr EXCEPT !.arrays[p].live = FALSE,
                          !.freed = @ \/ arr.arrays[p].ownsMemory]
  /\ UNCHANGED <<blocks, adm, api>>

NextArr == CopyView \/ SubArrayView \/ ColumnView \/ SetElement \/ Destructor

SpecArr == InitArr /\ [][NextArr]_vars

\* the arrays built from an existing one
Views == {v \in 1..Len(arr.arrays) : arr.arrays[v].kind # "lender"}

\* C20: the pointer of a sub-array built with (rowsOffset, colsOffset) and of the
\* column view of column col is the address get(rowsOffset, colsOffset) and
\* get(0, col) of the lender compute, for every non-negative int argument
C20_OffsetsAgree ==
  arr # Idle =>
    \A v \in Views :
      arr.arrays[v].kind \in {"sub", "column"} =>
        arr.arrays[v].m = Cell(arr.arrays[arr.arrays[v].from],
                               arr.arrays[v].rowsOffset, arr.arrays[v].colsOffset)

\* C11: every view is non-owning, has the lender's lda, and its element (i,j) is
\* the storage cell of element (rowsOffset+i, colsOffset+j) of the lender, so a
\* write through one is read through the other; the storage is freed only by
\* destroying the array that owns it
C11_ViewsAlias ==
  arr # Idle =>
    /\ \A v \in Views :
         LET a == arr.arrays[v]
             p == arr.arrays[a.from]
         IN  /\ ~a.ownsMemory
             /\ a.lda = p.lda
             /\ \A i \in Ends(a.rows), j \in Ends(a.cols) :
                  /\ Cell(a, i, j) = Cell(p, a.rowsOffset + i, a.colsOffset + j)
                  /\ (Cell(a, i, j) \in DOMAIN arr.mem) =
                       (Cell(p, a.rowsOffset + i, a.colsOffset + j) \in DOMAIN arr.mem)
    /\ arr.freed => arr.arrays[1].ownsMemory /\ ~arr.arrays[1].live

====
